---------------------------- MODULE Spec2Model ----------------------------
(***************************************************************************)
(* Model of the recommendation feed of the Seoul neighbourhood recommender *)
(* (app.py): the query signature, the master-pool builder, the session     *)
(* scoped Feed State and the refill / take / relax protocol of             *)
(* get_recommendations_from_places, together with the three UI handlers    *)
(* that drive it (run, dislike re-recommend, re-recommend all) and the     *)
(* dislike check box.                                                      *)
(*                                                                         *)
(* Text is a sequence of characters.  A character is a one-element token:  *)
(* a Latin letter ("a", "A"), a blank (" ", "\t"), a punctuation mark      *)
(* ("-", "|") or one Hangul syllable written by its romanisation ("in",    *)
(* "sa", "dong").  One token is one Python character, so lengths, slices   *)
(* and substring tests are those of the Python strings.                    *)
(***************************************************************************)
EXTENDS Integers, Sequences, FiniteSets, TLC

(***************************************************************************)
(* Characters and text helpers                                             *)
(***************************************************************************)
Hangul ==
  {"ka", "pe", "de", "i", "teu", "mi", "sik", "in", "sa", "dong", "seong",
   "su", "yeon", "nam", "han", "jam", "sil", "an", "nyeong", "seo", "ul",
   "gu", "jong", "ro", "gil", "sup", "yeo", "yu", "bum", "bim", "chin",
   "reum", "sang", "beon", "ji", "bun", "ryu", "jung", "cheong", "do", "bong",
   "gang", "buk", "cho", "ma", "po", "yong", "san", "song", "pa", "yeong",
   "deung"}

LatinLower == {"a", "b", "c", "d", "g", "n", "o", "e", "k", "l", "r", "s", "u", "x"}

LatinUpper == {"A", "B", "C", "D", "G", "N", "O", "E", "K", "L", "R", "S", "U", "X"}

Blank == {" ", "\t"}

GreekLower == {"alpha", "sigma", "fsigma"}

GreekUpper == {"ALPHA", "SIGMA"}

\* letters with a case (Unicode property Cased)
Cased == LatinLower \cup LatinUpper \cup GreekLower \cup GreekUpper

\* characters a case context looks through (Unicode property Case_Ignorable)
CaseIgnorable == {"'", ".", ":"}

\* str.lower() on one character whose mapping does not depend on its context
LowerChar(c) ==
  IF c \notin LatinUpper \cup GreekUpper THEN c
  ELSE CASE c = "A" -> "a" [] c = "B" -> "b" [] c = "C" -> "c" [] c = "D" -> "d"
         [] c = "G" -> "g" [] c = "N" -> "n" [] c = "O" -> "o"
         [] c = "E" -> "e" [] c = "K" -> "k" [] c = "L" -> "l" [] c = "R" -> "r"
         [] c = "S" -> "s" [] c = "U" -> "u" [] c = "X" -> "x"
         [] c = "ALPHA" -> "alpha" [] c = "SIGMA" -> "sigma"

\* the nearest character at or before position j that is not case-ignorable
\* is a cased letter
RECURSIVE CasedBefore(_, _)
CasedBefore(s, j) ==
  IF j < 1 THEN FALSE
  ELSE IF s[j] \in CaseIgnorable THEN CasedBefore(s, j - 1)
       ELSE s[j] \in Cased

\* the nearest character at or after position j that is not case-ignorable
\* is a cased letter
RECURSIVE CasedAfter(_, _)
CasedAfter(s, j) ==
  IF j > Len(s) THEN FALSE
  ELSE IF s[j] \in CaseIgnorable THEN CasedAfter(s, j + 1)
       ELSE s[j] \in Cased

\* str.lower() at position i: a capital sigma that ends a word (a cased
\* letter before it, none after it) becomes the final sigma
LowerAt(s, i) ==
  IF s[i] = "SIGMA"
  THEN (IF CasedBefore(s, i - 1) /\ ~CasedAfter(s, i + 1) THEN "fsigma" ELSE "sigma")
  ELSE LowerChar(s[i])

RECURSIVE LowerFrom(_, _)
LowerFrom(s, i) == IF i > Len(s) THEN <<>> ELSE <<LowerAt(s, i)>> \o LowerFrom(s, i + 1)

\* str.lower()
Lower(s) == LowerFrom(s, 1)

\* str.strip(): drop leading and trailing blanks
RECURSIVE LStrip(_)
LStrip(s) == IF s # <<>> /\ Head(s) \in Blank THEN LStrip(Tail(s)) ELSE s

RECURSIVE RStrip(_)
RStrip(s) ==
  IF s # <<>> /\ s[Len(s)] \in Blank THEN RStrip(SubSeq(s, 1, Len(s) - 1)) ELSE s

Strip(s) == RStrip(LStrip(s))

\* re.sub(r"\s+", " ", s): every maximal run of blanks becomes one " "
RECURSIVE CollapseBlanks(_)
CollapseBlanks(s) ==
  IF s = <<>> THEN <<>>
  ELSE IF Head(s) \in Blank
       THEN <<" ">> \o CollapseBlanks(LStrip(s))
       ELSE <<Head(s)>> \o CollapseBlanks(Tail(s))

\* needle in haystack (Python's substring test)
IsSubstr(k, t) ==
  \E i \in 0..(Len(t) - Len(k)) : SubSeq(t, i + 1, i + Len(k)) = k

\* " ".join(list of texts)
RECURSIVE JoinSp(_)
JoinSp(ts) ==
  IF ts = <<>> THEN <<>>
  ELSE IF Len(ts) = 1 THEN ts[1]
       ELSE ts[1] \o <<" ">> \o JoinSp(Tail(ts))

\* str.split(): the maximal blank-free pieces, in order
RECURSIVE SplitAcc(_, _, _)
SplitAcc(s, cur, acc) ==
  IF s = <<>> THEN (IF cur = <<>> THEN acc ELSE Append(acc, cur))
  ELSE IF Head(s) \in Blank
       THEN SplitAcc(Tail(s), <<>>, IF cur = <<>> THEN acc ELSE Append(acc, cur))
       ELSE SplitAcc(Tail(s), Append(cur, Head(s)), acc)

Split(s) == SplitAcc(s, <<>>, <<>>)

Range(s) == {s[i] : i \in 1..Len(s)}

Min(a, b) == IF a < b THEN a ELSE b


(***************************************************************************)
(* Signature (app.py, make_signature)                                      *)
(***************************************************************************)
\* norm(): strip, lower, then collapse every run of blanks to one space
norm(s) == CollapseBlanks(Lower(Strip(s)))

\* json.dumps of a str (ensure_ascii=False): quotes, a tab written as \t
RECURSIVE JsonEscape(_)
JsonEscape(s) ==
  IF s = <<>> THEN <<>>
  ELSE (IF Head(s) = "\t" THEN <<"\\", "t">> ELSE <<Head(s)>>) \o JsonEscape(Tail(s))

JsonStr(s) == <<"\"">> \o JsonEscape(s) \o <<"\"">>

\* one entry of core["people"], keys in sorted order: loc{dong,gu,scope,si},
\* purpose, rel, taste
JsonPerson(p) ==
  <<"{", "\"loc\": ", "{", "\"dong\": ">> \o JsonStr(norm(p.start_location.dong))
  \o <<", ", "\"gu\": ">> \o JsonStr(norm(p.start_location.gu))
  \o <<", ", "\"scope\": ">> \o JsonStr(p.start_location.scope)
  \o <<", ", "\"si\": ">> \o JsonStr(norm(p.start_location.si))
  \o <<"}", ", ", "\"purpose\": ">> \o JsonStr(norm(p.purpose))
  \o <<", ", "\"rel\": ">> \o JsonStr(norm(p.relationship))
  \o <<", ", "\"taste\": ">> \o JsonStr(norm(p.taste))
  \o <<"}">>

RECURSIVE JsonPeople(_)
JsonPeople(ps) ==
  IF ps = <<>> THEN <<>>
  ELSE IF Len(ps) = 1 THEN JsonPerson(ps[1])
       ELSE JsonPerson(ps[1]) \o <<", ">> \o JsonPeople(Tail(ps))

NotMe(p) == ~p.is_me

\* the companions of a people list: [p for p in people if not p.is_me]
ExtraPeople(people_list) == SelectSeq(people_list, NotMe)

\* make_signature: json.dumps(core, ensure_ascii=False, sort_keys=True), the
\* keys in sorted order: crowd_pref, main_purpose, main_taste, people
make_signature(main_taste, main_purpose, crowd_pref, people_list) ==
  <<"{", "\"crowd_pref\": ">> \o JsonStr(crowd_pref)
  \o <<", ", "\"main_purpose\": ">> \o JsonStr(norm(main_purpose))
  \o <<", ", "\"main_taste\": ">> \o JsonStr(norm(main_taste))
  \o <<", ", "\"people\": ", "[">> \o JsonPeople(ExtraPeople(people_list))
  \o <<"]", "}">>

StartLocation(scope, si, gu, dong) ==
  [scope |-> scope, si |-> si, gu |-> gu, dong |-> dong]

ScopeSeoul == <<"seo", "ul", " ", "nae">>

PersonInput(is_me, relationship, taste, purpose, start_location) ==
  [is_me |-> is_me, relationship |-> relationship, taste |-> taste,
   purpose |-> purpose, start_location |-> start_location]

default_person(is_me) ==
  PersonInput(is_me, IF is_me THEN <<"bon", "in">> ELSE <<>>, <<>>, <<>>,
              StartLocation(ScopeSeoul, <<>>, <<>>, <<>>))

\* CROWD_LEVELS
CROWD_LEVELS == << <<"yeo", "yu">>, <<"yak", "gan", " ", "bum", "bim">>, <<"bum", "bim">> >>

(***************************************************************************)
(* Master pool (app.py, build_master_pool and its helpers)                 *)
(***************************************************************************)
Digit == {"0", "1", "2", "3", "4", "5", "6", "7", "8", "9"}

\* \w of the re module: letters (Hangul included), digits and "_"
WordChar == Hangul \cup LatinLower \cup LatinUpper \cup Digit \cup {"_"}

\* an optional number: None is the empty tuple, a float x the tuple <<x>>
None == <<>>

Num(x) == <<x>>

\* is_korean_text: re.search(r"[가-힣]", text)
is_korean_text(text) == \E i \in 1..Len(text) : text[i] \in Hangul

\* is_excluded_place: "안녕인사동" in f"{name} {address}".strip()
is_excluded_place(name, address) ==
  IsSubstr(<<"an", "nyeong", "in", "sa", "dong">>, Strip(name \o <<" ">> \o address))

\* a match of [가-힣]{k}동 at position i
HangulDongAt(text, i, k) ==
  /\ i + k <= Len(text)
  /\ text[i + k] = "dong"
  /\ \A j \in i..(i + k - 1) : text[j] \in Hangul

\* a match of ([A-Za-z\\-]+)-dong whose group spans i..j
LatinDongAt(text, i, j) ==
  /\ i <= j
  /\ j + 5 <= Len(text)
  /\ SubSeq(text, j + 1, j + 5) = <<"-", "d", "o", "n", "g">>
  /\ \A m \in i..j : text[m] \in LatinLower \cup LatinUpper \cup {"\\", "-"}

\* re.search(r"([가-힣]{2,4}동)", text) from position i on: the leftmost
\* match, the longest one at that position ({2,4} is greedy)
RECURSIVE SearchHangulDong(_, _)
SearchHangulDong(text, i) ==
  IF i > Len(text) THEN <<>>
  ELSE IF HangulDongAt(text, i, 4) THEN SubSeq(text, i, i + 4)
  ELSE IF HangulDongAt(text, i, 3) THEN SubSeq(text, i, i + 3)
  ELSE IF HangulDongAt(text, i, 2) THEN SubSeq(text, i, i + 2)
  ELSE SearchHangulDong(text, i + 1)

\* the longest group starting at i, trying the ends j, j-1, ..., i
RECURSIVE LatinDongEnd(_, _, _)
LatinDongEnd(text, i, j) ==
  IF j < i THEN 0
  ELSE IF LatinDongAt(text, i, j) THEN j
  ELSE LatinDongEnd(text, i, j - 1)

\* re.search(r"([A-Za-z\\-]+)-dong", text) from position i on
RECURSIVE SearchLatinDong(_, _)
SearchLatinDong(text, i) ==
  IF i > Len(text) THEN <<>>
  ELSE LET j == LatinDongEnd(text, i, Len(text))
       IN  IF j > 0 THEN SubSeq(text, i, j) \o <<"-", "d", "o", "n", "g">>
           ELSE SearchLatinDong(text, i + 1)

\* extract_dong
extract_dong(text) ==
  LET m == SearchHangulDong(text, 1)
  IN  IF m # <<>> THEN m ELSE SearchLatinDong(text, 1)

\* extract_dong_from_place: the address first, then the name
extract_dong_from_place(p) ==
  LET dong == extract_dong(p.address)
  IN  IF dong # <<>> THEN dong ELSE extract_dong(p.name)

\* re.sub(r"[^\w\s가-힣]", " ", text)
RECURSIVE CleanChars(_)
CleanChars(text) ==
  IF text = <<>> THEN <<>>
  ELSE <<IF Head(text) \in WordChar \cup Blank THEN Head(text) ELSE " ">>
       \o CleanChars(Tail(text))

LongEnough(t) == Len(t) >= 2

\* [t.strip().lower() for t in toks]
RECURSIVE StripLowerAll(_)
StripLowerAll(toks) ==
  IF toks = <<>> THEN <<>>
  ELSE <<Lower(Strip(Head(toks)))>> \o StripLowerAll(Tail(toks))

\* tokenize_korean_keywords: clean, split on blanks, lower, keep len >= 2
tokenize_korean_keywords(text) ==
  IF text = <<>> THEN <<>>
  ELSE SelectSeq(StripLowerAll(Split(CleanChars(text))), LongEnough)

\* sha1(...).hexdigest(), taken as collision free: the digest names its input
Sha1Hex(text) == <<"#">> \o text

\* _ensure_place_id
ensure_place_id(p) ==
  IF p.place_id # <<>> THEN p.place_id
  ELSE Sha1Hex(p.name \o <<"|">> \o p.address)

\* scores are counted in units of 0.0001
TokenHit == 4000

KeywordHit == 2000

RECURSIVE HitCount(_, _, _)
HitCount(keys, text, lowerKey) ==
  IF keys = <<>> THEN 0
  ELSE (IF Head(keys) # <<>>
           /\ IsSubstr(IF lowerKey THEN Lower(Head(keys)) ELSE Head(keys), text)
        THEN 1 ELSE 0) + HitCount(Tail(keys), text, lowerKey)

\* _score_place: 0.4 per user token and 0.2 per extra keyword found in the
\* lowered "name tags description" text
score_place(p, user_tokens, extra_keywords) ==
  LET text == Lower(JoinSp(<<p.name, JoinSp(p.tags), p.description>>))
  IN  TokenHit * HitCount(user_tokens, text, FALSE)
      + KeywordHit * HitCount(extra_keywords, text, TRUE)

\* hash(str) is salted once per interpreter process (HashSalt) and fixed for
\* the life of the process; the model folds the characters into the salt.
\* The value is abs(hash(user_text)) % 10000.
HashSalt == 1

CharCode(c) ==
  CASE c \in Blank -> 1 [] c \in LatinUpper -> 2 [] c \in LatinLower -> 3
    [] c \in Digit -> 4 [] c \in Hangul -> 5 [] OTHER -> 6

RECURSIVE HashFold(_, _)
HashFold(h, text) ==
  IF text = <<>> THEN h
  ELSE HashFold((h * 31 + CharCode(Head(text))) % 10000, Tail(text))

seed_base(user_text) == HashFold(HashSalt, user_text)

\* random.Random(seed): the i-th draw of the generator, a congruential
\* stream standing for the Mersenne twister
RECURSIVE RngState(_, _)
RngState(seed, i) ==
  IF i = 0 THEN seed + 1 ELSE (RngState(seed, i - 1) * 75 + 74) % 65537

\* rng.random() * 0.01 in units of 0.0001: a value in 0..99
Jitter(seed, i) == RngState(seed, i) % 100

\* the fixed city centre (37.5665, 126.9780), in units of 0.0001 degree
CityCenter == <<375665, 1269780>>

\* isinstance(v, (int, float))
IsNumber(v) == v # None

\* a loop body that takes a dong of any script
PoolKeepsAnyDong(p) ==
  LET name    == Strip(p.name)
      address == Strip(p.address)
      dong    == extract_dong_from_place(p)
  IN  /\ ~is_excluded_place(name, address)
      /\ dong # <<>>
      /\ ~(name # <<>> /\ ~is_korean_text(name))

\* the loop body of build_master_pool for one place: TRUE when it is kept
PoolKeeps(p) ==
  LET name    == Strip(p.name)
      address == Strip(p.address)
      dong    == extract_dong_from_place(p)
  IN  /\ ~is_excluded_place(name, address)
      /\ dong # <<>>
      /\ is_korean_text(dong)
      /\ ~(name # <<>> /\ ~is_korean_text(name))

\* the item appended to the pool for a kept place (before the jitter)
PoolItem(p, user_tokens, extra_keywords) ==
  LET pid == ensure_place_id(p)
      withId == [p EXCEPT !.place_id = pid]
  IN  [place_id |-> pid, name |-> p.name, address |-> p.address,
       tags |-> p.tags, description |-> p.description,
       lat |-> p.lat, lng |-> p.lng,
       area |-> extract_dong_from_place(p),
       center |-> IF IsNumber(p.lat) /\ IsNumber(p.lng) THEN <<p.lat[1], p.lng[1]>>
                  ELSE CityCenter,
       score |-> score_place(withId, user_tokens, extra_keywords)]

\* the loop "for p in places" of build_master_pool
RECURSIVE FilteredPool(_, _, _)
FilteredPool(places, user_tokens, extra_keywords) ==
  IF places = <<>> THEN <<>>
  ELSE (IF PoolKeeps(Head(places))
        THEN <<PoolItem(Head(places), user_tokens, extra_keywords)>>
        ELSE <<>>)
       \o FilteredPool(Tail(places), user_tokens, extra_keywords)

\* for item in pool: item["score"] += rng.random() * 0.01
RECURSIVE AddJitterFrom(_, _, _)
AddJitterFrom(pool, seed, i) ==
  IF pool = <<>> THEN <<>>
  ELSE <<[Head(pool) EXCEPT !.score = @ + Jitter(seed, i)]>>
       \o AddJitterFrom(Tail(pool), seed, i + 1)

AddJitter(pool, seed) == AddJitterFrom(pool, seed, 1)

\* list.sort(key=score, reverse=True): stable, so equal scores keep their
\* pool order; x goes behind every item whose score is >= its own
RECURSIVE InsertDesc(_, _)
InsertDesc(sorted, x) ==
  IF sorted = <<>> THEN <<x>>
  ELSE IF Head(sorted).score >= x.score
       THEN <<Head(sorted)>> \o InsertDesc(Tail(sorted), x)
       ELSE <<x>> \o sorted

RECURSIVE SortDesc(_, _)
SortDesc(pool, acc) ==
  IF pool = <<>> THEN acc ELSE SortDesc(Tail(pool), InsertDesc(acc, Head(pool)))

\* build_master_pool with the value seed in seed_base
PoolWithSeed(places, user_text, extra_keywords, seed) ==
  LET user_tokens == tokenize_korean_keywords(user_text)
      pool        == FilteredPool(places, user_tokens, extra_keywords)
  IN  SortDesc(AddJitter(pool, seed), <<>>)

\* build_master_pool
build_master_pool(places, user_text, extra_keywords) ==
  PoolWithSeed(places, user_text, extra_keywords, seed_base(user_text))

\* user_text of get_recommendations_from_places
RECURSIVE Tastes(_)
Tastes(ps) == IF ps = <<>> THEN <<>> ELSE <<Head(ps).taste>> \o Tastes(Tail(ps))

RECURSIVE Purposes(_)
Purposes(ps) == IF ps = <<>> THEN <<>> ELSE <<Head(ps).purpose>> \o Purposes(Tail(ps))

UserText(main_taste, main_purpose, people_list) ==
  JoinSp(<<main_taste, main_purpose,
           JoinSp(Tastes(ExtraPeople(people_list))),
           JoinSp(Purposes(ExtraPeople(people_list)))>>)

(***************************************************************************)
(* Inputs: the catalogues get_tour_places can return and the queries the   *)
(* form can submit                                                         *)
(***************************************************************************)
Insa == <<"in", "sa", "dong">>

Seongsu == <<"seong", "su", "dong">>

Yeonnam == <<"yeon", "nam", "dong">>

Hannam == <<"han", "nam", "dong">>

Jamsil == <<"jam", "sil", "dong">>

Addr(area) == <<"seo", "ul", " ", "jong", "ro", "gu", " ">> \o area

\* a normalised place as normalize_row returns it
Place(id, name, address, description, lat, lng) ==
  [place_id |-> id, name |-> name, address |-> address, tags |-> <<>>,
   description |-> description, lat |-> lat, lng |-> lng]

Cafe == <<"ka", "pe">>

Misik == <<"mi", "sik">>

\* ten places across three areas
CatTen ==
  << Place(<<"1">>, <<"in", "sa", " ", "ka", "pe">>, Addr(Insa), Cafe \o <<" ", "a", "b">>, None, None),
     Place(<<"2">>, <<"in", "sa", " ", "gil">>, Addr(Insa), Cafe, None, None),
     Place(<<"3">>, <<"seong", "su", " ", "sup">>, Addr(Seongsu), Cafe \o <<" ">> \o Misik, None, None),
     Place(<<"4">>, <<"in", "sa", " ", "mi", "sik">>, Addr(Insa), Misik, None, None),
     Place(<<"5">>, <<"yeon", "nam", " ", "gil">>, Addr(Yeonnam), <<"A", "B">>, None, None),
     Place(<<"6">>, <<"seong", "su", " ", "ka", "pe">>, Addr(Seongsu), <<>>, None, None),
     Place(<<"7">>, <<"in", "sa", " ", "sup">>, Addr(Insa), <<>>, None, None),
     Place(<<"8">>, <<"yeon", "nam", " ", "sup">>, Addr(Yeonnam), Misik, None, None),
     Place(<<"9">>, <<"seong", "su", " ", "gil">>, Addr(Seongsu), <<>>, None, None),
     Place(<<"1", "0">>, <<"in", "sa", " ", "ro">>, Addr(Insa), <<"de", "i", "teu">>, None, None) >>

\* two places of one area, two places of two areas
CatTwoSame ==
  << Place(<<"1", "1">>, <<"in", "sa", " ", "ka", "pe">>, Addr(Insa), <<>>, None, None),
     Place(<<"1", "2">>, <<"in", "sa", " ", "gil">>, Addr(Insa), Cafe, None, None) >>

CatTwoDiff ==
  << Place(<<"1", "1">>, <<"in", "sa", " ", "ka", "pe">>, Addr(Insa), <<>>, None, None),
     Place(<<"1", "3">>, <<"seong", "su", " ", "gil">>, Addr(Seongsu), Misik, None, None) >>

\* a catalogue with rows the pool builder drops (Latin name, no dong, the
\* denylisted listing, a romanised dong), a repeated place_id, a place whose
\* dong is only in its name and places with and without coordinates
CatMixed ==
  << Place(<<"2", "1">>, <<"han", "nam", " ", "ka", "pe">>, Addr(Hannam), Cafe, Num(375343), Num(1270067)),
     Place(<<"2", "2">>, <<"a", "b">>, Addr(Hannam), Cafe, None, None),
     Place(<<"2", "3">>, <<"seo", "ul", " ", "sup">>, <<"seo", "ul">>, Cafe, None, None),
     Place(<<"2", "4">>, <<"an", "nyeong", "in", "sa", "dong">>, Addr(Insa), Cafe, None, None),
     Place(<<"2", "5">>, <<"han", "nam", " ", "gil">>, <<"a", "b", "-", "d", "o", "n", "g">>, Cafe, None, None),
     Place(<<"2", "1">>, <<"jam", "sil", " ", "ka", "pe">>, Addr(Jamsil), Misik, None, None),
     Place(<<"2", "6">>, <<"jam", "sil", " ", "sup">>, Addr(Jamsil), <<>>, Num(375133), None),
     Place(<<"2", "7">>, <<"yeon", "nam", "dong", " ", "gil">>, <<>>, Misik, None, None),
     Place(<<"2", "8">>, <<"seong", "su", " ", "sup">>, Addr(Seongsu), Cafe, None, None),
     Place(<<"2", "9">>, <<"in", "sa", " ", "gil">>, Addr(Insa), <<>>, None, None) >>

\* get_tour_places returns [] when the service, the key or the rows are missing
Catalogs == {<<>>, CatTwoSame, CatTwoDiff, CatMixed, CatTen}

\* a submitted form: main taste and purpose, crowd preference, companions
Query(main_taste, main_purpose, crowd_pref, companions) ==
  [main_taste |-> main_taste, main_purpose |-> main_purpose,
   crowd_pref |-> crowd_pref, companions |-> companions]

Companion == PersonInput(FALSE, <<"chin", "gu">>, Cafe, <<>>,
                         StartLocation(ScopeSeoul, <<>>, <<"jong", "ro", "gu">>, Insa))

QueryA == Query(Cafe \o <<" ", "a", "b">>, <<"de", "i", "teu">>, CROWD_LEVELS[1], <<>>)

\* QueryA typed with other blanks and another letter case
QueryA2 == Query(<<" ">> \o Cafe \o <<"\t", " ", "A", "b">>, <<"de", "i", "teu", " ">>, CROWD_LEVELS[1], <<>>)

QueryB == Query(Misik, <<>>, CROWD_LEVELS[3], <<Companion>>)

Queries == {QueryA, QueryA2, QueryB}

\* expand_keywords_with_openai: [] without a key or on a failed request, else
\* the keywords the service answers
NoKeywords == <<>>

SomeKeywords == <<Misik, <<"A", "B">> >>

KeywordChoices == {NoKeywords, SomeKeywords}

\* the submissions explored: a form together with the answer of the keyword
\* service for it
Submission(q, extra_keywords) == [query |-> q, extra_keywords |-> extra_keywords]

Submissions ==
  {Submission(QueryA, NoKeywords), Submission(QueryA2, SomeKeywords),
   Submission(QueryB, SomeKeywords)}

\* The pools of every (places, user_text, extra_keywords) the inputs above
\* can produce, computed once: PoolOf is build_master_pool read from this
\* table when the arguments are in it.
UserTexts == {UserText(q.main_taste, q.main_purpose, q.companions) : q \in Queries}

PoolMemo ==
  {<<x, build_master_pool(x[1], x[2], x[3])>> :
     x \in (Catalogs \ {<<>>}) \X UserTexts \X KeywordChoices}

PoolOf(places, user_text, extra_keywords) ==
  LET key == <<places, user_text, extra_keywords>>
  IN  IF \E e \in PoolMemo : e[1] = key
      THEN (CHOOSE e \in PoolMemo : e[1] = key)[2]
      ELSE build_master_pool(places, user_text, extra_keywords)

(***************************************************************************)
(* Feed protocol (app.py, get_recommendations_from_places)                 *)
(***************************************************************************)
RECOMMEND_COUNT == 4

\* base_limit and max_limit are parameters of get_recommendations_from_places
\* (defaults 200 and 500); the model runs the protocol with small values that
\* keep RECOMMEND_COUNT < base_limit < max_limit and catalogues below,
\* between and above them
base_limit == 5

max_limit == 7

\* the number of dislike recordings (check box, re-recommend handlers) explored
MaxDislikeOps == 1

\* a refill that stops one entry before the buffer reaches the limit
RefillStopsEarly(cur, buf, limit) == cur < limit /\ Len(buf) < limit - 1

\* the loop condition of refill
RefillContinues(cur, buf, limit) == cur < limit /\ Len(buf) < limit

\* a reset on every call
SignatureAlwaysChanged(stored, signature) == TRUE

\* "reset if signature changed"
SignatureChanged(stored, signature) == stored # signature

RECURSIVE RefillLoop(_, _, _, _)
RefillLoop(cur, buf, limit, pool) ==
  IF RefillContinues(cur, buf, limit)
  THEN RefillLoop(cur + 1, Append(buf, pool[cur + 1]), limit, pool)
  ELSE [cursor |-> cur, feed_buffer |-> buf]

\* a refill that moves one entry per call
refillOne(cur, buf, plimit, pool) ==
  IF RefillContinues(cur, buf, Min(plimit, Len(pool)))
  THEN [cursor |-> cur + 1, feed_buffer |-> Append(buf, pool[cur + 1])]
  ELSE [cursor |-> cur, feed_buffer |-> buf]

\* a refill that reads the pool from its start instead of from the cursor
refillFromStart(cur, buf, plimit, pool) ==
  LET limit == Min(plimit, Len(pool))
  IN  IF RefillContinues(cur, buf, limit)
      THEN [cursor |-> limit, feed_buffer |-> buf \o SubSeq(pool, 1, limit - cur)]
      ELSE [cursor |-> cur, feed_buffer |-> buf]

\* refill(): move master_pool[cursor..] into the buffer up to the limit
refill(cur, buf, plimit, pool) ==
  RefillLoop(cur, buf, Min(plimit, Len(pool)), pool)

\* a take that does not look at seen_place_ids
SeenBeforeIgnored(item, seen) == FALSE

\* take(): the place was served before
SeenBefore(item, seen) == item.place_id \in seen

\* a take that does not look at the areas of its batch
AreaInBatchIgnored(item, seen_areas) == FALSE

\* take(): the area is already in this batch
AreaInBatch(item, seen_areas) == item.area # <<>> /\ item.area \in seen_areas

RECURSIVE TakeLoop(_, _, _, _, _)
TakeLoop(buf, seen, res, seen_areas, count) ==
  IF buf # <<>> /\ Len(res) < count
  THEN LET item == Head(buf)
       IN  IF SeenBefore(item, seen)
           THEN TakeLoop(Tail(buf), seen, res, seen_areas, count)
           ELSE IF AreaInBatch(item, seen_areas)
                THEN TakeLoop(Tail(buf), seen, res, seen_areas, count)
                ELSE TakeLoop(Tail(buf), seen \cup {item.place_id},
                              Append(res, item),
                              IF item.area # <<>> THEN seen_areas \cup {item.area}
                              ELSE seen_areas,
                              count)
  ELSE [feed_buffer |-> buf, seen_place_ids |-> seen, results |-> res]

\* take(count): pop from the front of the buffer until count items are accepted
take(buf, seen, count) == TakeLoop(buf, seen, <<>>, {}, count)

\* a ladder whose last rung stops at max_limit as well
RelaxedLimitNeverWhole(stg, pool) == Min(max_limit, Len(pool))

\* the pool_limit a relaxation step sets: the first step (stage 1 -> 2)
\* min(max_limit, len(master_pool)), the second len(master_pool)
RelaxedLimit(stg, pool) ==
  IF stg = 1 THEN Min(max_limit, Len(pool)) ELSE Len(pool)

\* a ladder without the fallback
TopUpNothing(res, pool) == res

\* a top-up that walks the pool from its end
TopUpFromEnd(res, pool) ==
  res \o SubSeq(pool, Len(pool) - Min(RECOMMEND_COUNT - Len(res), Len(pool)) + 1, Len(pool))

\* final top-up: master-pool items in order, duplicates allowed, until
\* RECOMMEND_COUNT results or the end of the pool
TopUp(res, pool) ==
  res \o SubSeq(pool, 1, Min(RECOMMEND_COUNT - Len(res), Len(pool)))

RECURSIVE PlaceIds(_)
PlaceIds(items) ==
  IF items = <<>> THEN <<>> ELSE <<Head(items).place_id>> \o PlaceIds(Tail(items))

RECURSIVE Areas(_)
Areas(items) ==
  IF items = <<>> THEN <<>> ELSE <<Head(items).area>> \o Areas(Tail(items))

(***************************************************************************)
(* State                                                                   *)
(***************************************************************************)
VARIABLES
  people,           \* st.session_state.people
  disliked,         \* st.session_state.disliked: signature -> set of entries
  last_reco,        \* st.session_state.last_reco
  last_signature,   \* st.session_state.last_signature
  reco_signature,   \* st.session_state.reco_signature
  seen_place_ids,   \* st.session_state.seen_place_ids
  feed_buffer,      \* st.session_state.feed_buffer
  master_pool,      \* st.session_state.master_pool
  cursor,           \* st.session_state.cursor
  pool_limit,       \* st.session_state.pool_limit
  pc,               \* position inside get_recommendations_from_places
  stage,            \* rung of the relaxation ladder (1..3), 0 outside a call
  call,             \* the call in progress: signature, len(places), reset taken,
                    \* pool used up when it began, selected_dislikes of the handler
  built_from,       \* arguments of the build_master_pool call that made master_pool
  results,          \* the local list results of the call in progress
  take_out,         \* what the latest take of this call returned
  take_n,           \* the count argument of the latest take
  topup,            \* the call entered the duplicate-allowing top-up
  served_ids,       \* place_ids take returned since the last signature reset
  dislike_ops,      \* number of dislike recordings so far
  sig_in,           \* two argument lists handed to make_signature
  sig_out,          \* the two signatures made from sig_in, <<>> before
  hash_salt,        \* the string-hash salt of the running interpreter process
  pool_in,          \* arguments handed to build_master_pool
  pool_out,         \* the pools built from pool_in so far, one per call
  row,              \* the raw record handed to normalize_row
  norm_out,         \* the places normalize_row returned for row so far, one per call
  clock,            \* time.time(), in hours
  environ,          \* os.environ: SEOUL_OPENAPI_KEY and OA21050_SERVICE_NAME
  service_cache,    \* _service_cache: <<>> for None or one _Cache
  places_cache,     \* _places_cache: <<>> for None or one _Cache
  fetch,            \* the get_tour_places call in progress and what it found at its start
  trace,            \* the HTTP requests and sleeps of the latest get_tour_places call
  fetch_out,        \* how the latest get_tour_places call ended
  score_in,         \* arguments handed to score_area_by_preferences
  score_out         \* the scores computed from score_in so far: as given, crowd levels swapped

feed == <<reco_signature, seen_place_ids, feed_buffer, master_pool, cursor, pool_limit>>

locals == <<pc, stage, call, results, take_out, take_n, topup>>

vars == <<people, disliked, last_reco, last_signature, reco_signature,
          seen_place_ids, feed_buffer, master_pool, cursor, pool_limit,
          pc, stage, call, built_from, results, take_out, take_n, topup,
          served_ids, dislike_ops, sig_in, sig_out, hash_salt, pool_in, pool_out,
          row, norm_out,
          clock, environ, service_cache, places_cache, fetch, trace, fetch_out,
          score_in, score_out>>

sigvars == <<sig_in, sig_out>>

poolvars == <<hash_salt, pool_in, pool_out>>

normvars == <<row, norm_out>>

fetchvars == <<clock, environ, service_cache, places_cache, fetch, trace, fetch_out>>

scorevars == <<score_in, score_out>>

\* the variables of the specifications of single functions
auxvars == <<sigvars, poolvars, normvars, fetchvars, scorevars>>

\* st.session_state and the locals of a call in progress
session == <<people, disliked, last_reco, last_signature, feed, locals,
             served_ids, dislike_ops, built_from>>

NoCall ==
  [signature |-> <<>>, n_places |-> 0, reset |-> FALSE, drained |-> FALSE,
   selected |-> {}]

Built(places, user_text, extra_keywords) ==
  [places |-> places, user_text |-> user_text, extra_keywords |-> extra_keywords]

\* st.session_state.disliked.get(signature, set())
DislikedGet(d, signature) == IF signature \in DOMAIN d THEN d[signature] ELSE {}

\* a store that keeps the set of the written signature only
DislikedPutForgetsOthers(d, signature, disliked_set) == [s \in {signature} |-> disliked_set]

\* st.session_state.disliked[signature] = disliked_set
DislikedPut(d, signature, disliked_set) ==
  [s \in DOMAIN d \cup {signature} |-> IF s = signature THEN disliked_set ELSE d[s]]

\* init_state
SessionInit ==
  /\ people = <<default_person(TRUE)>>
  /\ disliked = <<>>
  /\ last_reco = <<>>
  /\ last_signature = <<>>
  /\ reco_signature = <<>>
  /\ seen_place_ids = {}
  /\ feed_buffer = <<>>
  /\ master_pool = <<>>
  /\ cursor = 0
  /\ pool_limit = 0
  /\ pc = "idle"
  /\ stage = 0
  /\ call = NoCall
  /\ built_from = Built(<<>>, <<>>, <<>>)
  /\ results = <<>>
  /\ take_out = <<>>
  /\ take_n = 0
  /\ topup = FALSE
  /\ served_ids = <<>>
  /\ dislike_ops = 0

SigArgs(main_taste, main_purpose, crowd_pref, people_list) ==
  [main_taste |-> main_taste, main_purpose |-> main_purpose,
   crowd_pref |-> crowd_pref, people |-> people_list]

NoSigIn == <<SigArgs(<<>>, <<>>, <<>>, <<>>), SigArgs(<<>>, <<>>, <<>>, <<>>)>>

SigIdle ==
  /\ sig_in = NoSigIn
  /\ sig_out = <<>>

PoolIdle ==
  /\ hash_salt = HashSalt
  /\ pool_in = Built(<<>>, <<>>, <<>>)
  /\ pool_out = <<>>

NoFetch ==
  [pc |-> "idle", api_key |-> <<>>, now |-> 0, phase |-> "none", attempt |-> 0,
   resp |-> "none", service_name |-> <<>>, stored_arg |-> <<>>,
   warm |-> FALSE, stale |-> FALSE]

NoOutcome == [kind |-> "none", places |-> <<>>, cached |-> FALSE]

FetchIdle ==
  /\ clock = 0
  /\ environ = [SEOUL_OPENAPI_KEY |-> <<>>, OA21050_SERVICE_NAME |-> <<>>]
  /\ service_cache = <<>>
  /\ places_cache = <<>>
  /\ fetch = NoFetch
  /\ trace = <<>>
  /\ fetch_out = NoOutcome

ScoreArgs(area, main_taste, main_purpose, crowd_pref, crowd_now, tour_spot_index, extra_people, extra_keywords) ==
  [area |-> area, main_taste |-> main_taste, main_purpose |-> main_purpose,
   crowd_pref |-> crowd_pref, crowd_now |-> crowd_now,
   tour_spot_index |-> tour_spot_index, extra_people |-> extra_people,
   extra_keywords |-> extra_keywords]

ScoreIdle ==
  /\ score_in = ScoreArgs([area |-> <<>>, gu |-> <<>>], <<>>, <<>>, <<>>, <<>>, <<>>,
                          <<>>, <<>>)
  /\ score_out = <<>>

NormIdle ==
  /\ row = <<>>
  /\ norm_out = <<>>

Init ==
  /\ SessionInit
  /\ ScoreIdle
  /\ FetchIdle
  /\ NormIdle
  /\ SigIdle
  /\ PoolIdle

\* the texts a signature is computed from: up to MaxLen characters, letters
\* of both cases and blanks
MaxLen == 3

SigAlphabet == {"alpha", "ALPHA", "sigma", "SIGMA", " "}

RECURSIVE Texts(_)
Texts(n) ==
  IF n = 0 THEN {<<>>}
  ELSE LET shorter == Texts(n - 1)
       IN  shorter \cup {Append(t, c) : t \in {u \in shorter : Len(u) = n - 1},
                                         c \in SigAlphabet}

SigFields == {"main_taste", "main_purpose", "rel", "taste", "purpose", "si", "gu", "dong"}

\* the arguments of make_signature with text t in one field: the main
\* taste or purpose, or a field of the one companion
SigArgsWith(field, t) ==
  LET mt  == IF field = "main_taste" THEN t ELSE Cafe
      mp  == IF field = "main_purpose" THEN t ELSE <<"de", "i", "teu">>
      rel == IF field = "rel" THEN t ELSE <<"chin", "gu">>
      ta  == IF field = "taste" THEN t ELSE Misik
      pu  == IF field = "purpose" THEN t ELSE <<>>
      si  == IF field = "si" THEN t ELSE <<>>
      gu  == IF field = "gu" THEN t ELSE <<"jong", "ro", "gu">>
      dg  == IF field = "dong" THEN t ELSE <<>>
  IN  SigArgs(mt, mp, CROWD_LEVELS[1],
              <<default_person(TRUE),
                PersonInput(FALSE, rel, ta, pu, StartLocation(ScopeSeoul, si, gu, dg))>>)

\* the upper-case letter of a letter (itself for any other character)
UpperChar(c) ==
  CASE c = "alpha" -> "ALPHA" [] c = "sigma" -> "SIGMA" [] c = "fsigma" -> "SIGMA"
    [] c = "a" -> "A" [] c = "b" -> "B" [] c = "c" -> "C" [] c = "d" -> "D"
    [] c = "g" -> "G" [] c = "n" -> "N" [] c = "o" -> "O"
    [] c = "e" -> "E" [] c = "k" -> "K" [] c = "l" -> "L" [] c = "r" -> "R"
    [] c = "s" -> "S" [] c = "u" -> "U" [] c = "x" -> "X"
    [] OTHER -> c

\* two characters are equal or one is the other's upper-case letter
CasePair(c, d) == c = d \/ UpperChar(c) = d \/ UpperChar(d) = c

WordAlike(v, w) == Len(v) = Len(w) /\ \A i \in 1..Len(v) : CasePair(v[i], w[i])

\* two texts differ only by leading or trailing blanks, by the length of
\* their runs of blanks, or by the case of their letters
TextAlike(s, t) ==
  LET ws == Split(s)
      wt == Split(t)
  IN  Len(ws) = Len(wt) /\ \A i \in 1..Len(ws) : WordAlike(ws[i], wt[i])

PersonAlike(p, q) ==
  /\ p.is_me = q.is_me
  /\ TextAlike(p.relationship, q.relationship)
  /\ TextAlike(p.taste, q.taste)
  /\ TextAlike(p.purpose, q.purpose)
  /\ p.start_location.scope = q.start_location.scope
  /\ TextAlike(p.start_location.si, q.start_location.si)
  /\ TextAlike(p.start_location.gu, q.start_location.gu)
  /\ TextAlike(p.start_location.dong, q.start_location.dong)

\* two argument lists of make_signature differ only by blanks and letter
\* case of their normalised fields
ArgsAlike(a, b) ==
  /\ TextAlike(a.main_taste, b.main_taste)
  /\ TextAlike(a.main_purpose, b.main_purpose)
  /\ a.crowd_pref = b.crowd_pref
  /\ Len(a.people) = Len(b.people)
  /\ \A i \in 1..Len(a.people) : PersonAlike(a.people[i], b.people[i])

\* a second companion, with taste t
Friend(t) ==
  PersonInput(FALSE, <<"chin", "gu">>, t, <<"de", "i", "teu">>,
              StartLocation(ScopeSeoul, <<>>, <<>>, Insa))

\* the orders in which the session can hold the user and two companions
Orders(a, b, c) ==
  {<<a, b, c>>, <<a, c, b>>, <<b, a, c>>, <<b, c, a>>, <<c, a, b>>, <<c, b, a>>}

Occurrences(seq, x) == Cardinality({i \in 1..Len(seq) : seq[i] = x})

\* two lists hold the same elements the same number of times
IsPermutation(a, b) ==
  /\ Len(a) = Len(b)
  /\ \A x \in Range(a) \cup Range(b) : Occurrences(a, x) = Occurrences(b, x)

\* two argument lists with the same main fields and the same companions in
\* any order
SameCompanions(a, b) ==
  /\ a.main_taste = b.main_taste
  /\ a.main_purpose = b.main_purpose
  /\ a.crowd_pref = b.crowd_pref
  /\ IsPermutation(ExtraPeople(a.people), ExtraPeople(b.people))

SigInit ==
  /\ SessionInit
  /\ ScoreIdle
  /\ FetchIdle
  /\ NormIdle
  /\ PoolIdle
  /\ sig_out = <<>>
  /\ \/ \E s \in Texts(MaxLen), t \in Texts(MaxLen) :
          /\ TextAlike(s, t)
          /\ \E field \in SigFields :
                sig_in = <<SigArgsWith(field, s), SigArgsWith(field, t)>>
     \/ \E t \in Texts(MaxLen) :
          \E l1 \in Orders(default_person(TRUE), Companion, Friend(t)),
             l2 \in Orders(default_person(TRUE), Companion, Friend(t)) :
             sig_in = <<SigArgs(Cafe, <<"de", "i", "teu">>, CROWD_LEVELS[1], l1),
                        SigArgs(Cafe, <<"de", "i", "teu">>, CROWD_LEVELS[1], l2)>>

(***************************************************************************)
(* Operations                                                              *)
(***************************************************************************)
\* a reset that keeps what the previous signature had seen and buffered
ResetStateKeepsFeed(signature, pool) ==
  [reco_signature |-> signature, seen_place_ids |-> seen_place_ids,
   feed_buffer |-> feed_buffer, master_pool |-> pool, cursor |-> 0,
   pool_limit |-> base_limit]

\* the Feed State written by the "reset if signature changed" block
ResetState(signature, pool) ==
  [reco_signature |-> signature, seen_place_ids |-> {}, feed_buffer |-> <<>>,
   master_pool |-> pool, cursor |-> 0, pool_limit |-> base_limit]

\* the pool is used up: every entry was loaded and the buffer is empty
Drained(cur, buf, pool) == pool # <<>> /\ cur = Len(pool) /\ buf = <<>>

\* a call that goes on without places
NoPlacesIgnored(places) == FALSE

\* if not places
NoPlaces(places) == places = <<>>

\* Entry of get_recommendations_from_places up to the first refill.  With no
\* places the call returns [] at once and the handler stores it in last_reco.
BeginCall(places, signature, main_taste, main_purpose, people_list, extra_keywords, selected) ==
  LET user_text == UserText(main_taste, main_purpose, people_list)
      changed   == SignatureChanged(reco_signature, signature)
  IN  IF NoPlaces(places)
      THEN /\ last_reco' = <<>>
           /\ UNCHANGED <<feed, locals, served_ids, built_from>>
      ELSE /\ IF changed
              THEN LET st == ResetState(signature,
                                        PoolOf(places, user_text, extra_keywords))
                   IN  /\ reco_signature' = st.reco_signature
                       /\ seen_place_ids' = st.seen_place_ids
                       /\ feed_buffer' = st.feed_buffer
                       /\ master_pool' = st.master_pool
                       /\ cursor' = st.cursor
                       /\ pool_limit' = st.pool_limit
                       /\ served_ids' = <<>>
                   /\ built_from' = Built(places, user_text, extra_keywords)
              ELSE UNCHANGED <<feed, served_ids, built_from>>
           /\ call' = [signature |-> signature, n_places |-> Len(places),
                       reset |-> changed,
                       drained |-> ~changed /\ Drained(cursor, feed_buffer, master_pool),
                       selected |-> selected]
           /\ pc' = "refill"
           /\ stage' = 1
           /\ results' = <<>>
           /\ take_out' = <<>>
           /\ take_n' = 0
           /\ topup' = FALSE
           /\ UNCHANGED last_reco

\* "추천 실행": the submitted form is stored, the signature made, the places
\* fetched and the recommendation call started
Run(q, places, extra_keywords) ==
  /\ pc = "idle"
  /\ LET me == [people[1] EXCEPT !.taste = q.main_taste, !.purpose = q.main_purpose]
         people_list == <<me>> \o q.companions
         signature == make_signature(q.main_taste, q.main_purpose, q.crowd_pref, people_list)
     IN  /\ people' = people_list
         /\ last_signature' = signature
         /\ BeginCall(places, signature, q.main_taste, q.main_purpose, people_list,
                      extra_keywords, {})
  /\ UNCHANGED <<disliked, dislike_ops, auxvars>>

\* the place_ids rerank_after_dislike adds: cards of last_reco whose area is selected
DislikedCardIds(selected) ==
  {last_reco[i].place_id : i \in {j \in 1..Len(last_reco) :
      last_reco[j].area \in selected /\ last_reco[j].place_id # <<>>}}

\* "비선호 재추천": rerank_after_dislike(last_signature, list(disliked set))
RerankAfterDislikeUpTo(cap, places, extra_keywords) ==
  /\ pc = "idle"
  /\ last_reco # <<>>
  /\ dislike_ops < cap
  /\ LET signature == last_signature
         selected  == DislikedGet(disliked, signature)
     IN  IF selected = {}
         THEN UNCHANGED vars
         ELSE /\ disliked' = DislikedPut(disliked, signature,
                                         selected \cup DislikedCardIds(selected))
              /\ dislike_ops' = dislike_ops + 1
              /\ BeginCall(places, signature, people[1].taste, people[1].purpose,
                           people, extra_keywords, selected)
              /\ UNCHANGED <<people, last_signature, auxvars>>

\* the handler explored up to MaxDislikeOps dislike recordings
RerankAfterDislike(places, extra_keywords) ==
  RerankAfterDislikeUpTo(MaxDislikeOps, places, extra_keywords)

\* "모두 재추천": rerank_all_recos(last_signature)
RerankAllUpTo(cap, places, extra_keywords) ==
  /\ pc = "idle"
  /\ last_reco # <<>>
  /\ dislike_ops < cap
  /\ LET signature == last_signature
         current   == {last_reco[i].place_id : i \in 1..Len(last_reco)} \ {<<>>}
     IN  /\ disliked' = DislikedPut(disliked, signature,
                                    DislikedGet(disliked, signature) \cup current)
         /\ BeginCall(places, signature, people[1].taste, people[1].purpose,
                      people, extra_keywords, {})
  /\ dislike_ops' = dislike_ops + 1
  /\ UNCHANGED <<people, last_signature, auxvars>>

RerankAll(places, extra_keywords) == RerankAllUpTo(MaxDislikeOps, places, extra_keywords)

\* the "비선호" check box of a shown card
DislikeCheckUpTo(cap, area_name) ==
  /\ pc = "idle"
  /\ last_reco # <<>>
  /\ dislike_ops < cap
  /\ area_name \in Range(Areas(last_reco))
  /\ area_name \notin DislikedGet(disliked, last_signature)
  /\ disliked' = DislikedPut(disliked, last_signature,
                             DislikedGet(disliked, last_signature) \cup {area_name})
  /\ dislike_ops' = dislike_ops + 1
  /\ UNCHANGED <<people, last_reco, last_signature, feed, locals, served_ids, built_from,
                 auxvars>>

DislikeCheck(area_name) == DislikeCheckUpTo(MaxDislikeOps, area_name)

\* refill()
DoRefill ==
  /\ pc = "refill"
  /\ LET r == refill(cursor, feed_buffer, pool_limit, master_pool)
     IN  /\ cursor' = r.cursor
         /\ feed_buffer' = r.feed_buffer
  /\ pc' = "take"
  /\ UNCHANGED <<people, disliked, last_reco, last_signature, reco_signature,
                 seen_place_ids, master_pool, pool_limit, stage, call, built_from,
                 results, take_out, take_n, topup, served_ids, dislike_ops, auxvars>>

\* results += take(RECOMMEND_COUNT - len(results)), then the test that
\* guards the next rung
DoTake ==
  /\ pc = "take"
  /\ LET count == RECOMMEND_COUNT - Len(results)
         t     == take(feed_buffer, seen_place_ids, count)
     IN  /\ feed_buffer' = t.feed_buffer
         /\ seen_place_ids' = t.seen_place_ids
         /\ results' = results \o t.results
         /\ take_out' = t.results
         /\ take_n' = count
         /\ served_ids' = served_ids \o PlaceIds(t.results)
         /\ pc' = IF Len(results \o t.results) < RECOMMEND_COUNT
                  THEN (IF stage < 3 THEN "relax" ELSE "topup")
                  ELSE "return"
  /\ UNCHANGED <<people, disliked, last_reco, last_signature, reco_signature,
                 master_pool, cursor, pool_limit, stage, call, built_from, topup,
                 dislike_ops, auxvars>>

\* relaxation: expand pool_limit (and refill next)
DoRelax ==
  /\ pc = "relax"
  /\ pool_limit' = RelaxedLimit(stage, master_pool)
  /\ stage' = stage + 1
  /\ pc' = "refill"
  /\ UNCHANGED <<people, disliked, last_reco, last_signature, reco_signature,
                 seen_place_ids, feed_buffer, master_pool, cursor, call, built_from,
                 results, take_out, take_n, topup, served_ids, dislike_ops, auxvars>>

\* final top-up: allow duplicates
DoTopUp ==
  /\ pc = "topup"
  /\ results' = TopUp(results, master_pool)
  /\ topup' = TRUE
  /\ pc' = "return"
  /\ UNCHANGED <<people, disliked, last_reco, last_signature, feed, built_from,
                 stage, call, take_out, take_n, served_ids, dislike_ops, auxvars>>

\* return results; the handler stores them in last_reco
Return ==
  /\ pc = "return"
  /\ last_reco' = results
  /\ pc' = "idle"
  /\ stage' = 0
  /\ call' = NoCall
  /\ results' = <<>>
  /\ take_out' = <<>>
  /\ take_n' = 0
  /\ topup' = FALSE
  /\ UNCHANGED <<people, disliked, last_signature, feed, built_from, served_ids,
                 dislike_ops, auxvars>>

Next ==
  \/ \E s \in Submissions, places \in Catalogs : Run(s.query, places, s.extra_keywords)
  \/ \E places \in Catalogs, kw \in KeywordChoices : RerankAfterDislike(places, kw)
  \/ \E places \in Catalogs, kw \in KeywordChoices : RerankAll(places, kw)
  \/ \E a \in {Insa, Seongsu, Yeonnam, Hannam, Jamsil} : DislikeCheck(a)
  \/ DoRefill
  \/ DoTake
  \/ DoRelax
  \/ DoTopUp
  \/ Return

Spec == Init /\ [][Next]_vars

\* the two queries of sig_in made one after the other: the signature of each
\* (main handler, make_signature call) and whether the second one resets the
\* Feed State the first one left
Signatures ==
  /\ sig_out = <<>>
  /\ LET first  == make_signature(sig_in[1].main_taste, sig_in[1].main_purpose,
                                  sig_in[1].crowd_pref, sig_in[1].people)
         second == make_signature(sig_in[2].main_taste, sig_in[2].main_purpose,
                                  sig_in[2].crowd_pref, sig_in[2].people)
     IN  sig_out' = [first |-> first, second |-> second,
                     reset |-> SignatureChanged(first, second)]
  /\ UNCHANGED <<session, scorevars, fetchvars, normvars, sig_in, poolvars>>

SigNext == Signatures

SigSpec == SigInit /\ [][SigNext]_vars

(***************************************************************************)
(* Place normaliser (seoul_oa21050.py)                                     *)
(***************************************************************************)
\* A raw record is a dict in insertion order: a sequence of fields
\* [k |-> key, v |-> value] with distinct keys.  A value is a str, a number
\* or None: [t |-> "str", s |-> its text], [t |-> "num", s |-> the text
\* str(number)], [t |-> "null", s |-> <<>>].
StrVal(text) == [t |-> "str", s |-> text]

NumVal(text) == [t |-> "num", s |-> text]

NullVal == [t |-> "null", s |-> <<>>]

Field(key, value) == [k |-> key, v |-> value]

\* bool(value): a non-empty str or a number other than zero
Truthy(value) ==
  \/ value.t = "str" /\ value.s # <<>>
  \/ value.t = "num" /\ value.s \notin {<<"0">>, <<"0", ".", "0">>}

HasKey(raw, key) == \E i \in 1..Len(raw) : raw[i].k = key

\* raw[key] for a key of the record
ValueOf(raw, key) == raw[CHOOSE i \in 1..Len(raw) : raw[i].k = key].v

\* str.lower() of the field names that are not already in lower case
KeyLowerTable ==
  {<<"NAME", "name">>, <<"TITLE", "title">>, <<"ADDR", "addr">>, <<"ADDR_1", "addr_1">>,
   <<"ADDR1", "addr1">>, <<"ADDRESS", "address">>, <<"ROAD_ADDR", "road_addr">>,
   <<"ADDR_NM", "addr_nm">>, <<"DESC", "desc">>, <<"DESCRIPTION", "description">>,
   <<"CONTENT", "content">>, <<"DTL_CN", "dtl_cn">>, <<"HOMEPAGE", "homepage">>,
   <<"URL", "url">>, <<"HOMEPAGE_URL", "homepage_url">>, <<"HMPG_URL", "hmpg_url">>,
   <<"GU_NM", "gu_nm">>, <<"GU", "gu">>, <<"SGG_NM", "sgg_nm">>, <<"SIGUNGU", "sigungu">>,
   <<"SIGUNGU_NM", "sigungu_nm">>, <<"LAT", "lat">>, <<"Lat", "lat">>,
   <<"LATITUDE", "latitude">>, <<"Y", "y">>, <<"MAPY", "mapy">>, <<"LNG", "lng">>,
   <<"LON", "lon">>, <<"LONGITUDE", "longitude">>, <<"X", "x">>, <<"MAPX", "mapx">>,
   <<"THEMA", "thema">>, <<"THEME", "theme">>, <<"TAG", "tag">>, <<"TAGS", "tags">>,
   <<"CATEGORY", "category">>, <<"CLASS", "class">>, <<"ID", "id">>, <<"Id", "id">>,
   <<"PLACE_ID", "place_id">>, <<"POI_ID", "poi_id">>, <<"SEQ", "seq">>,
   <<"MNG_NO", "mng_no">>, <<"AREA", "area">>, <<"MEMO", "memo">>}

KeyLower(key) ==
  IF \E e \in KeyLowerTable : e[1] = key
  THEN (CHOOSE e \in KeyLowerTable : e[1] = key)[2]
  ELSE key

\* the inner loop of _get_first_value: the first field, in record order,
\* whose lowered name is lk and whose value is truthy (0 if there is none)
RECURSIVE FirstFieldLike(_, _, _)
FirstFieldLike(raw, lk, i) ==
  IF i > Len(raw) THEN 0
  ELSE IF KeyLower(raw[i].k) = lk /\ Truthy(raw[i].v) THEN i
  ELSE FirstFieldLike(raw, lk, i + 1)

\* _get_first_value: str(value).strip() of the first candidate key that
\* holds a truthy value, by exact name and then by lowered name; None if no
\* candidate does
RECURSIVE get_first_value(_, _)
get_first_value(d, keys) ==
  IF keys = <<>> THEN None
  ELSE IF HasKey(d, Head(keys)) /\ Truthy(ValueOf(d, Head(keys)))
       THEN Strip(ValueOf(d, Head(keys)).s)
       ELSE LET i == FirstFieldLike(d, KeyLower(Head(keys)), 1)
            IN  IF i > 0 THEN Strip(d[i].v.s)
                ELSE get_first_value(d, Tail(keys))

AllIn(text, chars) == \A i \in 1..Len(text) : text[i] \in chars

AlphaNum == LatinLower \cup LatinUpper \cup Digit

\* a fullmatch of (-[A-Za-z0-9]{2,8})+ on text[i..]
RECURSIVE SubtagsFrom(_, _)
SubtagsFrom(text, i) ==
  \E n \in 2..8 :
     /\ i + n <= Len(text)
     /\ text[i] = "-"
     /\ AllIn(SubSeq(text, i + 1, i + n), AlphaNum)
     /\ (i + n = Len(text) \/ SubtagsFrom(text, i + n + 1))

\* is_language_code
is_language_code(text) ==
  LET s == Strip(text)
  IN  /\ text # <<>>
      /\ \/ Len(s) \in 2..3 /\ AllIn(s, LatinLower)
         \/ \E n \in 2..3 : /\ n < Len(s)
                            /\ AllIn(SubSeq(s, 1, n), LatinLower)
                            /\ SubtagsFrom(s, n + 1)
         \/ Len(s) \in 1..3 /\ AllIn(s, LatinLower \cup LatinUpper)

\* is_numeric_code: the pattern r"\\d+$" is a backslash followed by letters
\* d; the second test is any alphanumeric text of at most 6 characters
is_numeric_code(text) ==
  LET s == Strip(text)
  IN  \/ Len(s) >= 2 /\ s[1] = "\\" /\ AllIn(Tail(s), {"d"})
      \/ Len(s) \in 1..6 /\ AllIn(s, AlphaNum)

\* a match of \\d{2,}: a backslash followed by at least two letters d
BackslashDs(t) == IsSubstr(<<"\\", "d", "d">>, t)

\* _looks_like_address (re.IGNORECASE)
looks_like_address(text) ==
  LET t == Lower(text)
  IN  \/ \E c \in {"ro", "gil", "dong", "gu"} : IsSubstr(<<c>>, t)
      \/ IsSubstr(<<"gu", "cheong">>, t)
      \/ IsSubstr(<<"beon", "ji">>, t)
      \/ BackslashDs(t)
      \/ IsSubstr(<<"-", "d", "o", "n", "g">>, t)
      \/ IsSubstr(<<"-", "g", "u">>, t)
      \/ IsSubstr(<<"s", "e", "o", "u", "l">>, t)
      \/ IsSubstr(<<"seo", "ul">>, t)

NameKeys ==
  <<"NAME", "name", "TITLE", "title", "PLACE_NM", "PLACE_NAME", "POI_NM", "TOUR_NM",
    "SIGHT_NM", "NM", "SUBJECT", "TRRSRT_NM", "TRRSRT_NAME", "FACI_NM">>

IsCode(v) == is_language_code(v) \/ is_numeric_code(v)

\* pick_best_name, step 1: the candidate keys in order (<<>> if none gives
\* a name)
RECURSIVE NameByKey(_, _)
NameByKey(raw, keys) ==
  IF keys = <<>> THEN <<>>
  ELSE LET k == Head(keys)
           v == IF HasKey(raw, k) /\ ValueOf(raw, k).t = "str"
                THEN Strip(ValueOf(raw, k).s) ELSE <<>>
       IN  IF v # <<>> /\ ~IsCode(v) /\ is_korean_text(v) THEN v
           ELSE NameByKey(raw, Tail(keys))

\* pick_best_name, step 2: every non-blank str value in record order
RECURSIVE NameByScan(_, _)
NameByScan(raw, i) ==
  IF i > Len(raw) THEN <<>>
  ELSE LET v == IF raw[i].v.t = "str" THEN Strip(raw[i].v.s) ELSE <<>>
       IN  IF v # <<>> /\ ~IsCode(v) /\ ~looks_like_address(v) /\ is_korean_text(v)
           THEN v
           ELSE NameByScan(raw, i + 1)

\* "이름미상-" followed by the first 6 hex digits of sha1("unknown")
UnknownName == <<"i", "reum", "mi", "sang", "-", "#", "unknown">>

\* pick_best_name
pick_best_name(raw) ==
  LET byKey == NameByKey(raw, NameKeys)
  IN  IF byKey # <<>> THEN byKey
      ELSE LET byScan == NameByScan(raw, 1)
           IN  IF byScan # <<>> THEN byScan ELSE UnknownName

\* float(text) succeeds: a decimal literal with an optional sign and at
\* most one point, or nan (the exponent and inf forms need characters that
\* no coordinate text of the model holds)
IsFloatLiteral(text) ==
  LET body == IF text # <<>> /\ Head(text) \in {"+", "-"} THEN Tail(text) ELSE text
  IN  \/ /\ body # <<>>
         /\ AllIn(body, Digit \cup {"."})
         /\ Cardinality({i \in 1..Len(body) : body[i] = "."}) <= 1
         /\ \E i \in 1..Len(body) : body[i] \in Digit
      \/ Lower(body) = <<"n", "a", "n">>

\* _parse_float: float(str(v).strip()), None when that raises; str(None) is
\* "None", which is no float.  The float is carried as its literal.
parse_float(v) ==
  IF v # None /\ IsFloatLiteral(Strip(v)) THEN Num(Strip(v)) ELSE None

\* a match of [가-힣]{k}구 at position i
HangulGuAt(text, i, k) ==
  /\ i + k <= Len(text)
  /\ text[i + k] = "gu"
  /\ \A j \in i..(i + k - 1) : text[j] \in Hangul

\* re.search(r"([가-힣]{2,4}구)", address) from position i on
RECURSIVE SearchHangulGu(_, _)
SearchHangulGu(text, i) ==
  IF i > Len(text) THEN <<>>
  ELSE IF HangulGuAt(text, i, 4) THEN SubSeq(text, i, i + 4)
  ELSE IF HangulGuAt(text, i, 3) THEN SubSeq(text, i, i + 3)
  ELSE IF HangulGuAt(text, i, 2) THEN SubSeq(text, i, i + 2)
  ELSE SearchHangulGu(text, i + 1)

\* a match of ([A-Za-z\-]+)-gu whose group spans i..j
LatinGuAt(text, i, j) ==
  /\ i <= j
  /\ j + 3 <= Len(text)
  /\ SubSeq(text, j + 1, j + 3) = <<"-", "g", "u">>
  /\ \A m \in i..j : text[m] \in LatinLower \cup LatinUpper \cup {"-"}

RECURSIVE LatinGuEnd(_, _, _)
LatinGuEnd(text, i, j) ==
  IF j < i THEN 0
  ELSE IF LatinGuAt(text, i, j) THEN j
  ELSE LatinGuEnd(text, i, j - 1)

\* the group of the leftmost match of ([A-Za-z\-]+)-gu (<<>> if none)
RECURSIVE SearchLatinGu(_, _)
SearchLatinGu(text, i) ==
  IF i > Len(text) THEN <<>>
  ELSE LET j == LatinGuEnd(text, i, Len(text))
       IN  IF j > 0 THEN SubSeq(text, i, j) ELSE SearchLatinGu(text, i + 1)

\* eng_map: the entries whose key is written with letters of the model
EngMap ==
  {<<<<"S", "e", "o", "n", "g", "d", "o", "n", "g">>, <<"seong", "dong", "gu">>>>,
   <<<<"S", "e", "o", "n", "g", "b", "u", "k">>, <<"seong", "buk", "gu">>>>,
   <<<<"G", "a", "n", "g", "b", "u", "k">>, <<"gang", "buk", "gu">>>>,
   <<<<"D", "o", "b", "o", "n", "g">>, <<"do", "bong", "gu">>>>,
   <<<<"G", "a", "n", "g", "s", "e", "o">>, <<"gang", "seo", "gu">>>>,
   <<<<"G", "u", "r", "o">>, <<"gu", "ro", "gu">>>>,
   <<<<"G", "a", "n", "g", "d", "o", "n", "g">>, <<"gang", "dong", "gu">>>>}

\* cn_map in dictionary order; a Hanja character is written h:<reading>
CnMap ==
  <<<<<<"h:gang", "h:nam", "h:gu">>, <<"gang", "nam", "gu">>>>,
    <<<<"h:seo", "h:cho", "h:gu">>, <<"seo", "cho", "gu">>>>,
    <<<<"h:jong", "h:ro", "h:gu">>, <<"jong", "ro", "gu">>>>,
    <<<<"h:jung", "h:gu">>, <<"jung", "gu">>>>,
    <<<<"h:ma", "h:po", "h:gu">>, <<"ma", "po", "gu">>>>,
    <<<<"h:yong", "h:san", "h:gu">>, <<"yong", "san", "gu">>>>,
    <<<<"h:song", "h:pa", "h:gu">>, <<"song", "pa", "gu">>>>,
    <<<<"h:yeong", "h:deung", "h:po", "h:gu">>, <<"yeong", "deung", "po", "gu">>>>>>

RECURSIVE CnLookup(_, _)
CnLookup(address, i) ==
  IF i > Len(CnMap) THEN None
  ELSE IF IsSubstr(CnMap[i][1], address) THEN CnMap[i][2]
  ELSE CnLookup(address, i + 1)

\* _extract_gu
extract_gu(address) ==
  IF address = <<>> THEN None
  ELSE LET m == SearchHangulGu(address, 1)
           eng == SearchLatinGu(address, 1)
       IN  IF m # <<>> THEN m
           ELSE IF eng # <<>>
                THEN (IF \E e \in EngMap : e[1] = eng
                      THEN (CHOOSE e \in EngMap : e[1] = eng)[2]
                      ELSE eng \o <<"-", "g", "u">>)
                ELSE CnLookup(address, 1)

\* [t.strip() for t in val.replace("/", ",").split(",") if t.strip()]
RECURSIVE SplitTags(_, _, _)
SplitTags(text, cur, acc) ==
  LET done == IF Strip(cur) = <<>> THEN acc ELSE Append(acc, Strip(cur))
  IN  IF text = <<>> THEN done
      ELSE IF Head(text) \in {",", "/"} THEN SplitTags(Tail(text), <<>>, done)
      ELSE SplitTags(Tail(text), Append(cur, Head(text)), acc)

TagKeys == <<"THEMA", "THEME", "TAG", "TAGS", "CATEGORY", "CLASS">>

\* the loop over the tag keys of normalize_row
RECURSIVE TagsOf(_, _)
TagsOf(raw, keys) ==
  IF keys = <<>> THEN <<>>
  ELSE LET val == get_first_value(raw, <<Head(keys)>>)
       IN  (IF val # <<>> THEN SplitTags(val, <<>>, <<>>) ELSE <<>>)
           \o TagsOf(raw, Tail(keys))

\* a or b for optional texts
OrElse(a, b) == IF a # <<>> THEN a ELSE b

IdKeys == <<"ID", "PLACE_ID", "POI_ID", "SEQ", "MNG_NO", "kr:gwanribeonho">>

\* normalize_row
normalize_row(raw) ==
  LET name     == pick_best_name(raw)
      address  == get_first_value(raw, <<"ADDR", "ADDR_1", "ADDR1", "ADDRESS",
                                         "ROAD_ADDR", "ADDR_NM">>)
      desc     == get_first_value(raw, <<"DESC", "DESCRIPTION", "CONTENT", "DTL_CN">>)
      url      == get_first_value(raw, <<"HOMEPAGE", "URL", "HOMEPAGE_URL", "HMPG_URL">>)
      gu       == OrElse(get_first_value(raw, <<"GU_NM", "GU", "SGG_NM", "SIGUNGU",
                                                "SIGUNGU_NM">>),
                         extract_gu(address))
      lat      == parse_float(get_first_value(raw, <<"LAT", "LATITUDE", "Y", "MAPY">>))
      lng      == parse_float(get_first_value(raw, <<"LNG", "LON", "LONGITUDE", "X",
                                                     "MAPX">>))
      source   == get_first_value(raw, IdKeys)
      place_id == IF source # <<>> THEN source
                  ELSE Sha1Hex(name \o <<"|">> \o address)
      named    == IF name # <<>> THEN name
                  ELSE <<"i", "reum", "mi", "sang", "-">> \o SubSeq(place_id, 1, 6)
      area     == OrElse(get_first_value(raw, <<"area", "AREA">>),
                    OrElse(gu, OrElse(extract_gu(address), <<"mi", "bun", "ryu">>)))
  IN  [place_id |-> place_id, name |-> named, area |-> area, address |-> address,
       gu |-> gu, tags |-> TagsOf(raw, TagKeys), description |-> desc,
       homepage_url |-> url, lat |-> lat, lng |-> lng]

(***************************************************************************)
(* normalize_row applied to one raw record                                 *)
(***************************************************************************)
\* the largest number of fields of a raw record
MaxFields == 3

\* the fields a raw record is made of: names, addresses, identifiers and
\* coordinates that are Korean, codes, blank, numbers or null
RawFields ==
  {Field("NAME", StrVal(Cafe)), Field("NAME", StrVal(<<"e", "n">>)),
   Field("NAME", NumVal(<<"7">>)), Field("MEMO", StrVal(Misik)),
   Field("ADDR", StrVal(<<"jong", "ro", "gu", " ">> \o Insa)),
   Field("ADDR", StrVal(<<"D", "o", "b", "o", "n", "g", "-", "g", "u">>)),
   Field("ID", StrVal(<<" ", " ">>)), Field("ID", StrVal(<<"7">>)),
   Field("ID", NumVal(<<"0">>)), Field("Id", StrVal(<<"8">>)),
   Field("PLACE_ID", StrVal(<<"K", "7">>)),
   Field("LAT", StrVal(<<"3", "7", ".", "5">>)), Field("LAT", StrVal(<<"x">>)),
   Field("LNG", StrVal(<<"1", "2", "7">>)), Field("LNG", NullVal),
   Field("TAG", StrVal(Cafe \o <<"/", " ">> \o Misik \o <<",">>))}

\* the records of at most n fields: a dict holds each key once
RawRecords(n) ==
  {r \in UNION {[1..m -> RawFields] : m \in 0..n} :
      \A i, j \in 1..Len(r) : i # j => r[i].k # r[j].k}

NormInit ==
  /\ SessionInit
  /\ ScoreIdle
  /\ FetchIdle
  /\ SigIdle
  /\ PoolIdle
  /\ row \in RawRecords(MaxFields)
  /\ norm_out = <<>>

\* one call normalize_row(row)
NormalizeRow ==
  /\ Len(norm_out) < 2
  /\ norm_out' = Append(norm_out, normalize_row(row))
  /\ UNCHANGED <<session, scorevars, fetchvars, sigvars, poolvars, row>>

NormNext == NormalizeRow

NormSpec == NormInit /\ [][NormNext]_vars

(***************************************************************************)
(* get_tour_places (seoul_oa21050.py): retries, caches and outcomes        *)
(***************************************************************************)
RETRIES == 3

\* BACKOFF_BASE = 0.8 seconds, in tenths of a second
BACKOFF_BASE == 8

\* lifetime of _places_cache (6 * 3600 seconds), in hours
PlacesCacheHours == 6

\* lifetime of _service_cache (24 * 3600 seconds), in hours
ServiceCacheHours == 24

\* the clock stops here
MaxClock == 6

RECURSIVE Pow2(_)
Pow2(n) == IF n = 0 THEN 1 ELSE 2 * Pow2(n - 1)

\* the delay after failed attempt number attempt: (2 ** (attempt - 1)) * BACKOFF_BASE
Backoff(attempt) == Pow2(attempt - 1) * BACKOFF_BASE

\* the except branch of _request_with_retry: give up after the last
\* attempt, otherwise sleep and go round the loop again
AfterFailureSleepsAlways(attempt) == "sleep"

AfterFailure(attempt) == IF attempt = RETRIES THEN "return" ELSE "sleep"

\* requests.get raises (no connection, timeout) or raise_for_status raises
Failures == {"timeout", "status"}

\* bodies of a response with a success status: not JSON; JSON that is not an
\* object; a JSON object without rows; and objects with rows
ServiceBodies == {"text", "list", "norows", "unnamed", "named"}

DataBodies == {"text", "list", "norows", "rows"}

\* the service name a lookup response with a usable row gives
ServiceNameInRow == <<"S", "V", "C">>

\* the rows a data response carries
TourRows ==
  <<<<Field("NAME", StrVal(Cafe)), Field("ID", StrVal(<<"7">>)),
      Field("ADDR", StrVal(<<"jong", "ro", "gu", " ">> \o Insa))>>,
    <<Field("NAME", StrVal(Misik)), Field("LAT", StrVal(<<"3", "7", ".", "5">>))>>>>

RECURSIVE NormalizeAll(_)
NormalizeAll(rows) ==
  IF rows = <<>> THEN <<>>
  ELSE <<normalize_row(Head(rows))>> \o NormalizeAll(Tail(rows))

\* the api_key arguments: None, a key, a key with a blank before it
ApiKeys == {<<>>, <<"K">>, <<" ", "K">>}

Environs ==
  [SEOUL_OPENAPI_KEY : {<<>>, <<"E">>}, OA21050_SERVICE_NAME : {<<>>, <<"S", "V", "C">>}]

\* (api_key or "").strip() or os.getenv("SEOUL_OPENAPI_KEY", "").strip()
ResolveKey(api_key, env) == OrElse(Strip(api_key), Strip(env.SEOUL_OPENAPI_KEY))

Cache(value, expires_at, key) ==
  <<[value |-> value, expires_at |-> expires_at, key |-> key]>>

\* cache and cache.expires_at > now and cache.key == (api_key or "")
CacheHit(cache, now, api_key) ==
  /\ cache # <<>>
  /\ cache[1].expires_at > now
  /\ cache[1].key = api_key

GetEvent(phase, ok) == [op |-> "get", phase |-> phase, ok |-> ok, d |-> 0]

SleepEvent(phase, d) == [op |-> "sleep", phase |-> phase, ok |-> FALSE, d |-> d]

Returned(places, cached) == [kind |-> "list", places |-> places, cached |-> cached]

Raised == [kind |-> "raised", places |-> <<>>, cached |-> FALSE]

\* what get_service_name_for_oa21050 makes of the body of a successful
\* lookup response: it raises, returns None or returns a name
ServiceResult(body, env) ==
  CASE body = "text" -> [kind |-> "raised", name |-> <<>>]
    [] body = "list" -> [kind |-> "raised", name |-> <<>>]
    [] body = "named" -> [kind |-> "name", name |-> ServiceNameInRow]
    [] OTHER -> IF Strip(env.OA21050_SERVICE_NAME) # <<>>
                THEN [kind |-> "name", name |-> Strip(env.OA21050_SERVICE_NAME)]
                ELSE [kind |-> "none", name |-> <<>>]

FetchInit ==
  /\ SessionInit
  /\ ScoreIdle
  /\ NormIdle
  /\ SigIdle
  /\ PoolIdle
  /\ clock = 0
  /\ environ \in Environs
  /\ service_cache = <<>>
  /\ places_cache = <<>>
  /\ fetch = NoFetch
  /\ trace = <<>>
  /\ fetch_out = NoOutcome

\* get_tour_places(api_key) up to its first HTTP request: the cache test,
\* the cache test and key test of get_service_name_for_oa21050, the key test
GetTourPlaces ==
  /\ fetch.pc = "idle"
  /\ \E api_key \in ApiKeys :
        LET key     == ResolveKey(api_key, environ)
            started == [fetch EXCEPT !.api_key = api_key, !.now = clock,
                                     !.attempt = 0,
                                     !.phase = "none", !.resp = "none",
                                     !.service_name = <<>>,
                                     !.warm = /\ places_cache # <<>>
                                              /\ places_cache[1].value # <<>>
                                              /\ places_cache[1].expires_at > clock
                                              /\ fetch.stored_arg = api_key,
                                     !.stale = /\ places_cache # <<>>
                                               /\ places_cache[1].expires_at <= clock]
        IN  /\ trace' = <<>>
            /\ IF CacheHit(places_cache, clock, api_key)
               THEN /\ fetch' = started
                    /\ fetch_out' = Returned(places_cache[1].value, TRUE)
               ELSE IF CacheHit(service_cache, clock, api_key)
               THEN IF service_cache[1].value = <<>> \/ key = <<>>
                    THEN /\ fetch' = started
                         /\ fetch_out' = Returned(<<>>, FALSE)
                    ELSE /\ fetch' = [started EXCEPT !.pc = "request", !.phase = "data",
                                                     !.attempt = 1, !.resp = "pending",
                                                     !.service_name = service_cache[1].value]
                         /\ fetch_out' = NoOutcome
               ELSE IF key = <<>>
                    THEN /\ fetch' = started
                         /\ fetch_out' = Returned(<<>>, FALSE)
                    ELSE /\ fetch' = [started EXCEPT !.pc = "request", !.phase = "service",
                                                     !.attempt = 1, !.resp = "pending"]
                         /\ fetch_out' = NoOutcome
  /\ UNCHANGED <<session, scorevars, normvars, sigvars, poolvars, clock, environ,
                 service_cache, places_cache>>

\* one attempt of _request_with_retry fails
RequestFails ==
  /\ fetch.pc = "request"
  /\ \E failure \in Failures :
        trace' = Append(trace, GetEvent(fetch.phase, FALSE))
  /\ IF AfterFailure(fetch.attempt) = "return"
     THEN /\ fetch' = [fetch EXCEPT !.pc = "idle", !.resp = "none"]
          /\ fetch_out' = Returned(<<>>, FALSE)
     ELSE /\ fetch' = [fetch EXCEPT !.pc = "sleep"]
          /\ fetch_out' = fetch_out
  /\ UNCHANGED <<session, scorevars, normvars, sigvars, poolvars, clock, environ,
                 service_cache, places_cache>>

\* time.sleep between two attempts
Sleep ==
  /\ fetch.pc = "sleep"
  /\ trace' = Append(trace, SleepEvent(fetch.phase, Backoff(fetch.attempt)))
  /\ fetch' = [fetch EXCEPT !.pc = "request", !.attempt = @ + 1]
  /\ UNCHANGED <<session, scorevars, normvars, sigvars, poolvars, clock, environ,
                 service_cache, places_cache, fetch_out>>

\* the service-name lookup gets a response: the rest of
\* get_service_name_for_oa21050 and get_tour_places up to the data request
LookupAnswered ==
  /\ fetch.pc = "request"
  /\ fetch.phase = "service"
  /\ \E body \in ServiceBodies :
        LET r == ServiceResult(body, environ)
        IN  /\ trace' = Append(trace, GetEvent("service", TRUE))
            /\ IF r.kind = "raised"
               THEN /\ fetch' = [fetch EXCEPT !.pc = "idle", !.resp = "ok"]
                    /\ fetch_out' = Raised
                    /\ service_cache' = service_cache
               ELSE IF r.kind = "none"
               THEN /\ fetch' = [fetch EXCEPT !.pc = "idle", !.resp = "ok"]
                    /\ fetch_out' = Returned(<<>>, FALSE)
                    /\ service_cache' = service_cache
               ELSE /\ fetch' = [fetch EXCEPT !.phase = "data", !.attempt = 1,
                                              !.resp = "pending",
                                              !.service_name = r.name]
                    /\ fetch_out' = fetch_out
                    /\ service_cache' = Cache(r.name, fetch.now + ServiceCacheHours,
                                              ResolveKey(fetch.api_key, environ))
  /\ UNCHANGED <<session, scorevars, normvars, sigvars, poolvars, clock, environ, places_cache>>

\* the data request gets a response: the rest of get_tour_places
DataAnswered ==
  /\ fetch.pc = "request"
  /\ fetch.phase = "data"
  /\ \E body \in DataBodies :
        /\ trace' = Append(trace, GetEvent("data", TRUE))
        /\ IF body = "rows"
           THEN LET places == NormalizeAll(TourRows)
                IN  /\ places_cache' = Cache(places, fetch.now + PlacesCacheHours,
                                             ResolveKey(fetch.api_key, environ))
                    /\ fetch' = [fetch EXCEPT !.pc = "idle", !.resp = "ok",
                                              !.stored_arg = fetch.api_key]
                    /\ fetch_out' = Returned(places, FALSE)
           ELSE /\ places_cache' = places_cache
                /\ fetch' = [fetch EXCEPT !.pc = "idle", !.resp = "ok"]
                /\ fetch_out' = Returned(<<>>, FALSE)
  /\ UNCHANGED <<session, scorevars, normvars, sigvars, poolvars, clock, environ, service_cache>>

\* three hours pass
Tick ==
  /\ clock + 3 <= MaxClock
  /\ clock' = clock + 3
  /\ UNCHANGED <<session, scorevars, normvars, sigvars, poolvars, environ, service_cache,
                 places_cache, fetch, trace, fetch_out>>

FetchNext ==
  \/ GetTourPlaces
  \/ RequestFails
  \/ Sleep
  \/ LookupAnswered
  \/ DataAnswered
  \/ Tick

FetchSpec == FetchInit /\ [][FetchNext]_vars

(***************************************************************************)
(* score_area_by_preferences (app.py); scores in units of 0.01             *)
(***************************************************************************)
\* base += 2.0 when the observed level is the preferred one
CrowdMatch == 200

\* 1.5 - 0.7 * dist
CrowdNear == 150

CrowdStep == 70

\* min(6.0, hit * 0.15)
KeywordCap == 600

KeywordUnit == 15

\* base += 0.8 per query token found in the tags of the area
VibeHit == 80

\* rel_texts[:300]
MaxRelTexts == 300

Max(a, b) == IF a > b THEN a ELSE b

Abs(n) == IF n < 0 THEN 0 - n ELSE n

\* CROWD_LEVELS.index(level)
LevelIndex(level) == CHOOSE i \in 1..Len(CROWD_LEVELS) : CROWD_LEVELS[i] = level

\* the distance of two levels without the abs()
LevelDistanceSigned(crowd_now, crowd_pref) ==
  LevelIndex(crowd_now) - LevelIndex(crowd_pref)

LevelDistance(crowd_now, crowd_pref) ==
  Abs(LevelIndex(crowd_now) - LevelIndex(crowd_pref))

\* the crowd match score
CrowdTerm(crowd_pref, crowd_now) ==
  IF crowd_now = crowd_pref THEN CrowdMatch
  ELSE Max(0, CrowdNear - CrowdStep * LevelDistance(crowd_now, crowd_pref))

\* list(dict.fromkeys(kws))
RECURSIVE UniqueInOrder(_, _)
UniqueInOrder(items, acc) ==
  IF items = <<>> THEN acc
  ELSE UniqueInOrder(Tail(items),
                     IF \E i \in 1..Len(acc) : acc[i] = Head(items) THEN acc
                     ELSE Append(acc, Head(items)))

\* the tokens of the companions that gave a taste or a purpose
RECURSIVE PeopleTokens(_)
PeopleTokens(extra_people) ==
  IF extra_people = <<>> THEN <<>>
  ELSE LET p == Head(extra_people)
       IN  (IF Strip(p.taste) # <<>> \/ Strip(p.purpose) # <<>>
            THEN tokenize_korean_keywords(p.taste \o <<" ">> \o p.purpose)
            ELSE <<>>) \o PeopleTokens(Tail(extra_people))

RECURSIVE KeywordTokens(_)
KeywordTokens(extra_keywords) ==
  IF extra_keywords = <<>> THEN <<>>
  ELSE tokenize_korean_keywords(Head(extra_keywords))
       \o KeywordTokens(Tail(extra_keywords))

\* tour_spot_index.get(gu, []): the index is a sequence of <<gu, texts>>
IndexGet(tour_spot_index, gu) ==
  IF \E i \in 1..Len(tour_spot_index) : tour_spot_index[i][1] = gu
  THEN tour_spot_index[CHOOSE i \in 1..Len(tour_spot_index) :
                          tour_spot_index[i][1] = gu][2]
  ELSE <<>>

\* the number of (text, keyword) pairs with the keyword in the text
RECURSIVE IndexHits(_, _)
IndexHits(texts, kws) ==
  IF texts = <<>> THEN 0
  ELSE HitCount(kws, Head(texts), FALSE) + IndexHits(Tail(texts), kws)

\* the keyword score from the tour index
KeywordTerm(area, kws, tour_spot_index) ==
  IF tour_spot_index # <<>> /\ kws # <<>>
  THEN LET rel_texts == IF area.gu # <<>> THEN IndexGet(tour_spot_index, area.gu)
                        ELSE <<>>
           hit == IndexHits(SubSeq(rel_texts, 1, Min(MaxRelTexts, Len(rel_texts))), kws)
       IN  Min(KeywordCap, hit * KeywordUnit)
  ELSE 0

\* the hard-coded leanings of the areas
Vibe ==
  <<<<Insa, <<<<"jeon", "tong">>, <<"mun", "hwa">>, <<"gong", "ye">>, <<"jeon", "si">>>>>>,
    <<<<"sam", "cheong", "dong">>,
      <<<<"jeon", "tong">>, Cafe, <<"san", "chaek">>, <<"jeon", "si">>>>>>,
    <<<<"seo", "chon">>, <<<<"san", "chaek">>, Cafe, <<"jeon", "tong">>, <<"jeon", "si">>>>>>,
    <<<<"ik", "seon", "dong">>,
      <<<<"de", "i", "teu">>, <<"mat", "jip">>, Cafe, <<"han", "ok">>>>>>,
    <<<<"seong", "su">>,
      <<Cafe, <<"syo", "ping">>, <<"aek", "ti", "bi", "ti">>, <<"jeon", "si">>>>>>,
    <<<<"yeon", "nam">>, <<Cafe, <<"san", "chaek">>, <<"mat", "jip">>, <<"de", "i", "teu">>>>>>,
    <<<<"han", "nam">>,
      <<<<"ui", "jeon">>, <<"re", "seu", "to", "rang">>, <<"gael", "reo", "ri">>,
        <<"syo", "ping">>>>>>,
    <<<<"i", "tae", "won">>,
      <<<<"oe", "guk", "in">>, <<"da", "guk", "jeok">>, <<"ba">>,
        <<"re", "seu", "to", "rang">>>>>>,
    <<<<"yeo", "ui", "do">>,
      <<<<"ga", "jok">>, <<"syo", "ping">>, <<"gong", "yeon">>, <<"san", "chaek">>>>>>,
    <<<<"jam", "sil">>,
      <<<<"ga", "jok">>, <<"syo", "ping">>, <<"aek", "ti", "bi", "ti">>,
        <<"de", "i", "teu">>>>>>>>

\* area.get("area") or area.get("gu") or "미분류"
AreaNameSafe(area) == OrElse(area.area, OrElse(area.gu, <<"mi", "bun", "ryu">>))

\* the bonus from the leanings of the area
VibeTerm(area, main_taste, main_purpose) ==
  LET area_tags == Lower(JoinSp(IndexGet(Vibe, AreaNameSafe(area))))
  IN  VibeHit * HitCount(tokenize_korean_keywords(main_taste \o <<" ">> \o main_purpose),
                         area_tags, FALSE)

\* score_area_by_preferences, with the three terms of the sum kept apart
score_area_by_preferences(area, main_taste, main_purpose, crowd_pref, crowd_now, tour_spot_index, extra_people, extra_keywords) ==
  LET kws == UniqueInOrder(tokenize_korean_keywords(main_taste \o <<" ">> \o main_purpose)
                           \o PeopleTokens(extra_people)
                           \o KeywordTokens(extra_keywords), <<>>)
      crowd   == CrowdTerm(crowd_pref, crowd_now)
      keyword == KeywordTerm(area, kws, tour_spot_index)
      vibe    == VibeTerm(area, main_taste, main_purpose)
  IN  [crowd |-> crowd, keyword |-> keyword, vibe |-> vibe,
       score |-> crowd + keyword + vibe]

\* the areas scored: known and unknown to the table of leanings
ScoredAreas ==
  {[area |-> Insa, gu |-> <<"jong", "ro", "gu">>],
   [area |-> <<"seong", "su">>, gu |-> <<"seong", "dong", "gu">>],
   [area |-> <<>>, gu |-> <<"jung", "gu">>],
   [area |-> <<>>, gu |-> <<>>]}

\* build_tour_spot_index: the texts of the tour places per gu
TourSpotIndexes ==
  {<<>>,
   <<<<<<"jong", "ro", "gu">>,
       <<Cafe \o <<" ", "jong", "ro", "gu", " ">> \o Insa,
         <<"jong", "ro", "gu", " ">> \o Cafe,
         <<"de", "i", "teu">> \o Cafe \o <<" ", "jong", "ro", "gu">>>>>>,
     <<<<"seong", "dong", "gu">>, <<Misik \o <<" ", "seong", "dong", "gu">>>>>>,
     <<<<"jung", "gu">>, <<>>>>>>}

ScoreInit ==
  /\ SessionInit
  /\ FetchIdle
  /\ NormIdle
  /\ SigIdle
  /\ PoolIdle
  /\ score_out = <<>>
  /\ \E area \in ScoredAreas, q \in Queries, idx \in TourSpotIndexes,
        kw \in KeywordChoices, pref \in 1..Len(CROWD_LEVELS),
        now \in 1..Len(CROWD_LEVELS) :
        score_in = ScoreArgs(area, q.main_taste, q.main_purpose, CROWD_LEVELS[pref],
                             CROWD_LEVELS[now], idx, q.companions, kw)

\* score_area_by_preferences on score_in, then with the two crowd levels
\* exchanged
ScoreArea ==
  /\ Len(score_out) < 2
  /\ LET a    == score_in
         pref == IF score_out = <<>> THEN a.crowd_pref ELSE a.crowd_now
         now  == IF score_out = <<>> THEN a.crowd_now ELSE a.crowd_pref
     IN  score_out' = Append(score_out,
                             score_area_by_preferences(a.area, a.main_taste,
                                a.main_purpose, pref, now, a.tour_spot_index,
                                a.extra_people, a.extra_keywords))
  /\ UNCHANGED <<session, fetchvars, normvars, sigvars, poolvars, score_in>>

ScoreNext == ScoreArea

ScoreSpec == ScoreInit /\ [][ScoreNext]_vars

(***************************************************************************)
(* One call of get_recommendations_from_places on a fresh Feed State       *)
(***************************************************************************)
\* the places the catalogues of this specification are cut from: three
\* areas with several places each and two areas with one place
FeedPlaces == CatTen \o <<CatMixed[1], CatMixed[7]>>

\* the places of FeedPlaces at the positions in picked, in catalogue order
RECURSIVE PickedFrom(_, _)
PickedFrom(i, picked) ==
  IF i > Len(FeedPlaces) THEN <<>>
  ELSE (IF i \in picked THEN <<FeedPlaces[i]>> ELSE <<>>) \o PickedFrom(i + 1, picked)

\* catalogues whose pool the first refill loads whole: RECOMMEND_COUNT to
\* base_limit places
FeedCatalogs ==
  {PickedFrom(1, picked) :
     picked \in {x \in SUBSET (1..Len(FeedPlaces)) :
                    Cardinality(x) \in RECOMMEND_COUNT..base_limit}}

\* the state of the first run-handler call of a session, handed one of the
\* catalogues, at its first refill
FeedInit ==
  /\ ScoreIdle
  /\ FetchIdle
  /\ NormIdle
  /\ SigIdle
  /\ PoolIdle
  /\ \E places \in FeedCatalogs, kw \in KeywordChoices :
        LET q         == QueryA
            people_list == <<[default_person(TRUE) EXCEPT !.taste = q.main_taste,
                                                          !.purpose = q.main_purpose]>>
            signature == make_signature(q.main_taste, q.main_purpose, q.crowd_pref,
                                        people_list)
            user_text == UserText(q.main_taste, q.main_purpose, people_list)
            fresh     == ResetState(signature, build_master_pool(places, user_text, kw))
        IN  /\ people = people_list
            /\ disliked = <<>>
            /\ last_reco = <<>>
            /\ last_signature = signature
            /\ reco_signature = fresh.reco_signature
            /\ seen_place_ids = fresh.seen_place_ids
            /\ feed_buffer = fresh.feed_buffer
            /\ master_pool = fresh.master_pool
            /\ cursor = fresh.cursor
            /\ pool_limit = fresh.pool_limit
            /\ pc = "refill"
            /\ stage = 1
            /\ call = [signature |-> signature, n_places |-> Len(places), reset |-> TRUE,
                       drained |-> FALSE, selected |-> {}]
            /\ built_from = Built(places, user_text, kw)
            /\ results = <<>>
            /\ take_out = <<>>
            /\ take_n = 0
            /\ topup = FALSE
            /\ served_ids = <<>>
            /\ dislike_ops = 0

FeedNext ==
  \/ DoRefill
  \/ DoTake
  \/ DoRelax
  \/ DoTopUp
  \/ Return

FeedSpec == FeedInit /\ [][FeedNext]_vars

(***************************************************************************)
(* Repeated calls of get_recommendations_from_places in one session        *)
(***************************************************************************)
\* the first n places of CatTen
TenUpTo(n) == SubSeq(CatTen, 1, n)

\* a catalogue of which build_master_pool keeps no place
CatDropped == <<CatMixed[2], CatMixed[3]>>

\* the catalogues of this specification: pools of no entry, of fewer than
\* RECOMMEND_COUNT entries, and of up to max_limit + 1 and more entries
LadderCatalogs ==
  Catalogs \cup {CatDropped} \cup {TenUpTo(n) : n \in 3..Min(max_limit + 1, Len(CatTen))}

\* the forms submitted: one query again and again, and a second one
LadderSubmissions == {Submission(QueryA, NoKeywords), Submission(QueryB, SomeKeywords)}

LadderInit == Init

\* the run handler called with one of the submissions
RunAgain ==
  \E s \in LadderSubmissions, places \in LadderCatalogs :
     Run(s.query, places, s.extra_keywords)

LadderNext ==
  \/ RunAgain
  \/ DoRefill
  \/ DoTake
  \/ DoRelax
  \/ DoTopUp
  \/ Return

LadderSpec == LadderInit /\ [][LadderNext]_vars

(***************************************************************************)
(* One query submitted again and again                                     *)
(***************************************************************************)
\* the run handler called with the query and a catalogue that holds places
RunWithPlaces ==
  \E places \in LadderCatalogs \ {<<>>} : Run(QueryA, places, NoKeywords)

\* the run handler called with the query while get_tour_places returns []
RunNoPlaces == Run(QueryA, <<>>, NoKeywords)

\* the steps inside get_recommendations_from_places up to the handler's store
CallSteps ==
  \/ DoRefill
  \/ DoTake
  \/ DoRelax
  \/ DoTopUp
  \/ Return

RepeatNext ==
  \/ RunWithPlaces
  \/ RunNoPlaces
  \/ DoRefill
  \/ DoTake
  \/ DoRelax
  \/ DoTopUp
  \/ Return

\* A call runs to its end (the code is sequential, no step suspends), and the
\* user goes on submitting the query while the service returns places.
RepeatSpec ==
  /\ Init
  /\ [][RepeatNext]_vars
  /\ WF_vars(CallSteps)
  /\ WF_vars(RunWithPlaces)

(***************************************************************************)
(* Dislike recordings and re-recommendations                               *)
(***************************************************************************)
\* the number of dislike recordings this specification explores
MaxDislikeRuns == 2

DislikeCatalogs == {CatTen, CatTwoDiff}

DislikeSubmissions == {Submission(QueryA, NoKeywords), Submission(QueryB, SomeKeywords)}

DislikeNext ==
  \/ \E s \in DislikeSubmissions, places \in DislikeCatalogs :
        Run(s.query, places, s.extra_keywords)
  \/ \E places \in DislikeCatalogs, kw \in KeywordChoices :
        RerankAfterDislikeUpTo(MaxDislikeRuns, places, kw)
  \/ \E places \in DislikeCatalogs, kw \in KeywordChoices :
        RerankAllUpTo(MaxDislikeRuns, places, kw)
  \/ \E a \in {Insa, Seongsu, Yeonnam} : DislikeCheckUpTo(MaxDislikeRuns, a)
  \/ DoRefill
  \/ DoTake
  \/ DoRelax
  \/ DoTopUp
  \/ Return

DislikeSpec == Init /\ [][DislikeNext]_vars

(***************************************************************************)
(* build_master_pool called twice with the same arguments                  *)
(***************************************************************************)
\* the salts an interpreter process may draw for hash(str)
HashSalts == {HashSalt, HashSalt + 1, HashSalt + 2}

\* two places whose keyword scores are the same decimal sum reached by
\* different additions: three user tokens, and two user tokens with two
\* extra keywords
CatTie ==
  << Place(<<"3", "1">>, <<"in", "sa", " ", "gil">>, Addr(Insa),
           Cafe \o <<" ", "a", "b", " ", "de", "i", "teu">>, None, None),
     Place(<<"3", "2">>, <<"seong", "su", " ", "sup">>, Addr(Seongsu),
           Cafe \o <<" ", "a", "b", " ">> \o Misik, None, None) >>

TieKeywords == <<Misik, <<"sup">> >>

PoolCatalogs == Catalogs \cup {CatTie}

PoolKeywords == KeywordChoices \cup {TieKeywords}

PoolInit ==
  /\ SessionInit
  /\ ScoreIdle
  /\ FetchIdle
  /\ NormIdle
  /\ SigIdle
  /\ hash_salt \in HashSalts
  /\ pool_out = <<>>
  /\ \E places \in PoolCatalogs, user_text \in UserTexts, kw \in PoolKeywords :
        pool_in = Built(places, user_text, kw)

\* one call build_master_pool(places, user_text, extra_keywords) in the
\* running process: seed_base = abs(hash(user_text)) % 10000 under its salt
BuildPool ==
  /\ Len(pool_out) < 2
  /\ pool_out' = Append(pool_out,
                        PoolWithSeed(pool_in.places, pool_in.user_text,
                                     pool_in.extra_keywords,
                                     HashFold(hash_salt, pool_in.user_text)))
  /\ UNCHANGED <<session, scorevars, fetchvars, normvars, sigvars, hash_salt, pool_in>>

\* the program is started again: the new process draws its own salt
RestartProcess ==
  /\ Len(pool_out) = 1
  /\ \E h \in HashSalts \ {hash_salt} : hash_salt' = h
  /\ UNCHANGED <<session, scorevars, fetchvars, normvars, sigvars, pool_in, pool_out>>

PoolNext == BuildPool \/ RestartProcess

PoolSpec == PoolInit /\ [][PoolNext]_vars

TypeOK ==
  /\ pc \in {"idle", "refill", "take", "relax", "topup", "return"}
  /\ stage \in 0..3
  /\ cursor \in 0..Len(master_pool)
  /\ dislike_ops \in 0..MaxDislikeOps

(***************************************************************************)
(* Properties                                                              *)
(***************************************************************************)
Distinct(seq) == \A i, j \in 1..Len(seq) : i # j => seq[i] # seq[j]

\* number of items take has popped from the buffer since the last reset
Popped == cursor - Len(feed_buffer)

\* the result list of one whole call (lines 1013-1033) started in the Feed
\* State (pool, cur, buf, seen, plimit)
LadderResults(pool, cur, buf, seen, plimit) ==
  LET r1   == refill(cur, buf, plimit, pool)
      t1   == take(r1.feed_buffer, seen, RECOMMEND_COUNT)
      res1 == t1.results
      r2   == refill(r1.cursor, t1.feed_buffer, RelaxedLimit(1, pool), pool)
      t2   == take(r2.feed_buffer, t1.seen_place_ids, RECOMMEND_COUNT - Len(res1))
      res2 == res1 \o t2.results
      r3   == refill(r2.cursor, t2.feed_buffer, RelaxedLimit(2, pool), pool)
      t3   == take(r3.feed_buffer, t2.seen_place_ids, RECOMMEND_COUNT - Len(res2))
      res3 == res2 \o t3.results
  IN  IF Len(res1) >= RECOMMEND_COUNT THEN res1
      ELSE IF Len(res2) >= RECOMMEND_COUNT THEN res2
      ELSE IF Len(res3) >= RECOMMEND_COUNT THEN res3
      ELSE TopUp(res3, pool)

\* C1: a call with non-empty places whose signature differs from the stored
\* one starts its first refill from a reset Feed State (empty buffer, empty
\* seen set, cursor 0, pool_limit = base_limit, master_pool built from this
\* call's arguments, reco_signature = the new signature), and what it returns
\* is what the ladder returns from that fresh state: nothing left by an
\* earlier signature takes part, also when the signature comes back (A, B, A).
C1_ResetOnSignatureChange ==
  /\ (pc = "refill" /\ stage = 1 /\ call.reset) =>
        /\ feed_buffer = <<>>
        /\ seen_place_ids = {}
        /\ cursor = 0
        /\ pool_limit = base_limit
        /\ served_ids = <<>>
        /\ reco_signature = call.signature
        /\ master_pool = PoolOf(built_from.places, built_from.user_text,
                                built_from.extra_keywords)
  /\ (pc = "return" /\ call.reset) =>
        results = LadderResults(PoolOf(built_from.places, built_from.user_text,
                                       built_from.extra_keywords),
                                0, <<>>, {}, base_limit)

\* a reset call that returns a full list under a signature that was already
\* in use before (a dislike is recorded under it): the sequence A, B, A
C1_Witness ==
  /\ pc = "return"
  /\ call.reset
  /\ call.signature \in DOMAIN disliked
  /\ Len(results) = RECOMMEND_COUNT

\* C2: a call whose signature equals the stored reco_signature leaves
\* master_pool as it is (same items, same order) whatever places it is given,
\* and starts from the cursor, feed_buffer, seen_place_ids and pool_limit the
\* previous call left.
C2_SameSignatureReusesState ==
  [][(pc = "idle" /\ pc' = "refill" /\ call'.signature = reco_signature)
       => /\ master_pool' = master_pool
          /\ cursor' = cursor
          /\ feed_buffer' = feed_buffer
          /\ seen_place_ids' = seen_place_ids
          /\ pool_limit' = pool_limit
          /\ reco_signature' = reco_signature]_vars

\* a same-signature call in progress, given another catalogue than the one
\* the pool was built from, on a feed that was already advanced
C2_Witness ==
  /\ pc = "refill"
  /\ stage = 1
  /\ ~call.reset
  /\ call.n_places # Len(built_from.places)
  /\ cursor > 0
  /\ seen_place_ids # {}

\* C3: within one signature the place_ids returned by take, over all calls,
\* are pairwise distinct, and each of them is in seen_place_ids.
C3_TakeNeverRepeatsAPlace ==
  /\ Distinct(served_ids)
  /\ Range(served_ids) \subseteq seen_place_ids

\* the pool holds one place_id twice and take has popped both entries
C3_Witness ==
  \E i, j \in 1..Len(master_pool) :
     /\ i < j
     /\ master_pool[i].place_id = master_pool[j].place_id
     /\ Popped >= j
     /\ master_pool[i].place_id \in Range(served_ids)

\* C4: the list one take(n) returns holds no two items of one area and at
\* most n items.
C4_TakeBatchDistinctAreas ==
  /\ Len(take_out) <= take_n
  /\ Distinct(Areas(take_out))

\* the first take of a fresh feed popped more entries than it returned: it
\* skipped entries of an area already in the batch
C4_Witness ==
  /\ pc = "relax"
  /\ stage = 1
  /\ call.reset
  /\ take_n = RECOMMEND_COUNT
  /\ Len(take_out) >= 2
  /\ Popped > Len(take_out)
  /\ Distinct(PlaceIds(master_pool))

\* C5: the list a call returns without entering the top-up holds no two
\* items of one area, also when more than one take collected it.
C5_ResultDistinctAreas ==
  (pc = "return" /\ ~topup) => Distinct(Areas(results))

\* C6: with a master pool of fewer than RECOMMEND_COUNT places every call
\* enters the top-up and returns exactly RECOMMEND_COUNT items.
C6_SmallPoolReturnsR ==
  (pc = "return" /\ Len(master_pool) \in 1..(RECOMMEND_COUNT - 1))
     => (topup /\ Len(results) = RECOMMEND_COUNT)

\* C7: no item returned under a signature has a place_id or an area that is
\* in disliked[signature].
C7_DislikedNeverReturned ==
  (pc = "return") =>
     \A i \in 1..Len(results) :
        /\ results[i].place_id \notin DislikedGet(disliked, call.signature)
        /\ results[i].area \notin DislikedGet(disliked, call.signature)

\* C8: refill is idempotent: in every reachable Feed State a second refill
\* right after a refill changes neither cursor nor feed_buffer; in the state
\* a refill of the protocol has just produced, refill is a no-op.
C8_RefillIdempotent ==
  LET r1 == refill(cursor, feed_buffer, pool_limit, master_pool)
      r2 == refill(r1.cursor, r1.feed_buffer, pool_limit, master_pool)
  IN  /\ r2 = r1
      /\ (pc = "take") => (r1.cursor = cursor /\ r1.feed_buffer = feed_buffer)

\* after a relaxation a refill has moved entries and stopped at the limit,
\* before the end of the pool
C8_Witness ==
  /\ pc = "take"
  /\ stage = 2
  /\ feed_buffer # <<>>
  /\ cursor < Len(master_pool)
  /\ cursor = pool_limit

\* C9: between two signature resets pool_limit never decreases; each
\* relaxation step leaves it greater than or equal to its value before.
C9_PoolLimitOnlyGrows ==
  [][(pc = "idle" /\ pc' = "refill" /\ call'.reset) \/ pool_limit' >= pool_limit]_vars

\* C10: two queries whose main taste, main purpose and companion fields
\* differ only by leading or trailing blanks, runs of blanks or letter case
\* get the same signature, and the second one does not reset the Feed State.
C10_SignatureIgnoresCaseAndBlanks ==
  (sig_out # <<>> /\ ArgsAlike(sig_in[1], sig_in[2]))
     => (sig_out.first = sig_out.second /\ ~sig_out.reset)

\* C11: two queries with the same main taste, main purpose and crowd
\* preference whose people lists hold the same companions in any order get
\* the same signature, and the second one does not reset the Feed State.
C11_SignatureIgnoresCompanionOrder ==
  (sig_out # <<>> /\ SameCompanions(sig_in[1], sig_in[2]))
     => (sig_out.first = sig_out.second /\ ~sig_out.reset)

\* C12: two calls of build_master_pool with identical places, user_text and
\* extra_keywords return the same items in the same order with the same
\* final scores.
C12_PoolBuildIsDeterministic ==
  (Len(pool_out) = 2) => (pool_out[1] = pool_out[2])

\* the text of a field value: str(value) with surrounding blanks removed
FieldText(value) == IF value.t = "null" THEN <<>> ELSE Strip(value.s)

\* the fields of the record that carry an identifier: an ID key, in any
\* case, with a value whose text is not empty
IdFields(r) ==
  {i \in 1..Len(r) :
      /\ \E n \in 1..Len(IdKeys) : KeyLower(r[i].k) = KeyLower(IdKeys[n])
      /\ FieldText(r[i].v) # <<>>}

\* C13: normalize_row returns, for every raw record, a place whose name is
\* non-empty and holds a Korean character and whose place_id is non-empty:
\* the identifier of the record when a non-empty ID field exists, otherwise
\* the SHA-1 of name|address; the same record gives the same place again.
C13_NormalizeRowContract ==
  \A n \in 1..Len(norm_out) :
     LET p == norm_out[n]
     IN  /\ p.name # <<>>
         /\ is_korean_text(p.name)
         /\ p.place_id # <<>>
         /\ IdFields(row) # {} => \E i \in IdFields(row) : p.place_id = FieldText(row[i].v)
         /\ IdFields(row) = {} => p.place_id = Sha1Hex(p.name \o <<"|">> \o p.address)
         /\ p = norm_out[1]

\* C14: the place normalize_row returns has lat and lng both numeric or
\* both None.
C14_LatLngBothOrNeither ==
  \A n \in 1..Len(norm_out) : (norm_out[n].lat = None) <=> (norm_out[n].lng = None)

\* C15: get_tour_places never raises to its caller: whatever the two
\* requests do (all attempts failing, an HTTP error, a body that is not
\* valid JSON, JSON without rows), every call ends by returning a list.
C15_GetTourPlacesNeverRaises == fetch_out.kind # "raised"

IsServiceEvent(e) == e.phase = "service"

IsDataEvent(e) == e.phase = "data"

\* the requests and sleeps of the _request_with_retry call for one url
PhaseEvents(phase) ==
  IF phase = "service" THEN SelectSeq(trace, IsServiceEvent)
  ELSE SelectSeq(trace, IsDataEvent)

\* number of request attempts among the first i events
Gets(t, i) == Cardinality({j \in 1..i : t[j].op = "get"})

\* the _request_with_retry call of this phase has returned
HasReturned(phase) ==
  /\ PhaseEvents(phase) # <<>>
  /\ ~(fetch.pc \in {"request", "sleep"} /\ fetch.phase = phase)

\* C16: _request_with_retry makes at most RETRIES = 3 attempts; a
\* successful attempt is the last event of the call and its response is
\* returned; every sleep comes directly after a failed attempt that is not
\* the last one, is followed by the next attempt and lasts BACKOFF_BASE
\* doubled per attempt; after the third failure the call returns None (its
\* caller returns a list, nothing is raised) without sleeping.
C16_RetryAtMostThreeAttempts ==
  \A phase \in {"service", "data"} :
     LET t == PhaseEvents(phase)
     IN  /\ Gets(t, Len(t)) <= RETRIES
         /\ \A i \in 1..Len(t) :
               /\ (t[i].op = "get" /\ t[i].ok) => i = Len(t)
               /\ (t[i].op = "get" /\ i > 1) => t[i - 1].op = "sleep"
               /\ t[i].op = "sleep" =>
                     /\ i > 1 /\ t[i - 1].op = "get" /\ ~t[i - 1].ok
                     /\ Gets(t, i) < RETRIES
                     /\ t[i].d = Backoff(Gets(t, i))
                     /\ i < Len(t) => t[i + 1].op = "get"
         /\ HasReturned(phase) =>
               /\ t[Len(t)].op = "get"
               /\ t[Len(t)].ok \/ Gets(t, Len(t)) = RETRIES
               /\ fetch.phase = phase =>
                     /\ fetch.resp = (IF t[Len(t)].ok THEN "ok" ELSE "none")
                     /\ ~t[Len(t)].ok => fetch_out = Returned(<<>>, FALSE)

\* the data request failed three times, with two sleeps in between, and
\* _request_with_retry returned None
C16_Witness ==
  /\ fetch.pc = "idle"
  /\ fetch.phase = "data"
  /\ fetch.resp = "none"
  /\ Len(PhaseEvents("data")) = 2 * RETRIES - 1
  /\ PhaseEvents("data")[4].d = 2 * BACKOFF_BASE

\* C17: once get_tour_places has cached a non-empty list, a later call with
\* the same api_key argument and environment before the expiry returns that
\* list without any HTTP request; a call at or after the expiry does not
\* return the cached list.
C17_CachedListServedUntilExpiry ==
  /\ fetch.warm =>
        /\ trace = <<>>
        /\ fetch_out.cached
        /\ fetch_out.places = places_cache[1].value
  /\ fetch.stale => ~fetch_out.cached

EmptyCall ==
  \/ \E s \in Submissions : Run(s.query, <<>>, s.extra_keywords)
  \/ \E kw \in KeywordChoices :
        /\ DislikedGet(disliked, last_signature) # {}
        /\ RerankAfterDislike(<<>>, kw)
  \/ \E kw \in KeywordChoices : RerankAll(<<>>, kw)

\* C19: a call of get_recommendations_from_places with an empty places list
\* returns [] (the handler stores it in last_reco) and leaves reco_signature,
\* master_pool, cursor, pool_limit, feed_buffer and seen_place_ids as they
\* were, also when its signature is not the stored one; build_master_pool of
\* an empty list is the empty pool.
C19_EmptyPlacesLeavesFeedState ==
  [][(pc = "idle" /\ EmptyCall)
       => /\ last_reco' = <<>>
          /\ pc' = "idle"
          /\ reco_signature' = reco_signature
          /\ master_pool' = master_pool
          /\ cursor' = cursor
          /\ pool_limit' = pool_limit
          /\ feed_buffer' = feed_buffer
          /\ seen_place_ids' = seen_place_ids
          /\ \A user_text \in UserTexts, kw \in KeywordChoices :
                build_master_pool(<<>>, user_text, kw) = <<>>]_vars

\* a call with no places and a signature other than the stored one has
\* returned, on a Feed State that an earlier call had advanced
C19_Witness ==
  /\ pc = "idle"
  /\ last_reco = <<>>
  /\ last_signature # reco_signature
  /\ master_pool # <<>>
  /\ cursor > 0
  /\ seen_place_ids # {}

RECURSIVE Scores(_)
Scores(items) ==
  IF items = <<>> THEN <<>> ELSE <<Head(items).score>> \o Scores(Tail(items))

\* the first place of every area of the pool, in pool order
RECURSIVE BestPerArea(_, _)
BestPerArea(pool, areas) ==
  IF pool = <<>> THEN <<>>
  ELSE IF Head(pool).area \in areas THEN BestPerArea(Tail(pool), areas)
       ELSE <<Head(pool)>> \o BestPerArea(Tail(pool), areas \cup {Head(pool).area})

\* C20: when the first refill has loaded the whole master pool and the
\* scores are pairwise distinct, take(RECOMMEND_COUNT) returns the best place
\* of each area in pool order, up to RECOMMEND_COUNT of them; and when the
\* pool has fewer areas than that, the call still returns RECOMMEND_COUNT
\* distinct places, the open slots filled with lower-ranked places of the
\* areas already represented.
C20_TakeBestPerAreaThenFill ==
  (Len(master_pool) <= base_limit /\ Distinct(Scores(master_pool)))
     => /\ (stage = 1 /\ pc \in {"relax", "return"})
              => LET best == BestPerArea(master_pool, {})
                 IN  take_out = SubSeq(best, 1, Min(RECOMMEND_COUNT, Len(best)))
        /\ (pc = "return" /\ Len(master_pool) >= RECOMMEND_COUNT)
              => /\ Len(results) = RECOMMEND_COUNT
                 /\ Distinct(PlaceIds(results))


\* C21: the ladder runs in a fixed order within one call: a relaxation is
\* entered only with fewer than RECOMMEND_COUNT results, the second refill
\* runs under pool_limit = min(max_limit, len(master_pool)), the third under
\* pool_limit = len(master_pool), and the duplicate-allowing fallback is
\* entered only after the third take, still short, in a state where cursor =
\* len(master_pool) and feed_buffer is empty.
C21_LadderOrderAndFallbackState ==
  /\ (pc = "relax") => (stage \in 1..2 /\ Len(results) < RECOMMEND_COUNT)
  /\ (pc \in {"refill", "take"} /\ stage = 1) => results = <<>>
  /\ (pc = "refill" /\ stage = 2) =>
        (pool_limit = Min(max_limit, Len(master_pool)) /\ Len(results) < RECOMMEND_COUNT)
  /\ (pc = "refill" /\ stage = 3) =>
        (pool_limit = Len(master_pool) /\ Len(results) < RECOMMEND_COUNT)
  /\ (pc = "topup") => (stage = 3 /\ Len(results) < RECOMMEND_COUNT)
  /\ (pc = "topup" \/ topup) => (cursor = Len(master_pool) /\ feed_buffer = <<>>)

\* a repeated call on a pool larger than max_limit reaches the fallback with
\* some results of its own takes
C21_Witness ==
  /\ pc = "topup"
  /\ ~call.reset
  /\ Len(master_pool) > max_limit
  /\ results # <<>>

\* C22: a refill started in any reachable state ends with cursor or the
\* buffer length at limit = min(pool_limit, len(master_pool)), and what it
\* appended is master_pool[old cursor .. new cursor) in pool order; the state
\* a refill of the protocol has produced satisfies the same stop condition;
\* and 0 <= cursor <= len(master_pool) in every reachable state.
C22_RefillStopsAtLimit ==
  LET limit == Min(pool_limit, Len(master_pool))
      r     == refill(cursor, feed_buffer, pool_limit, master_pool)
  IN  /\ r.cursor >= limit \/ Len(r.feed_buffer) >= limit
      /\ r.cursor >= cursor
      /\ r.feed_buffer = feed_buffer \o SubSeq(master_pool, cursor + 1, r.cursor)
      /\ (pc = "take") => (cursor >= limit \/ Len(feed_buffer) >= limit)
      /\ 0 <= cursor /\ cursor <= Len(master_pool)

\* the third refill of a call has appended the rest of a pool larger than
\* max_limit to the buffer the second take had emptied
C22_Witness ==
  /\ pc = "take"
  /\ stage = 3
  /\ Len(master_pool) > max_limit
  /\ cursor = Len(master_pool)
  /\ feed_buffer = SubSeq(master_pool, max_limit + 1, Len(master_pool))

\* C23: in every reachable Feed State feed_buffer is the run of master_pool
\* that ends at the cursor, master_pool[cursor - len(feed_buffer) .. cursor)
\* in pool order; within one signature no step moves the cursor backwards or
\* takes an entry out of the middle of the buffer: a step that keeps the
\* signature keeps the pool, and leaves a buffer that is a run ending at the
\* new cursor and starting at or behind the start of the old one.
C23_BufferIsPoolRunEndingAtCursor ==
  /\ [](/\ Len(feed_buffer) <= cursor
        /\ cursor <= Len(master_pool)
        /\ feed_buffer = SubSeq(master_pool, cursor - Len(feed_buffer) + 1, cursor))
  /\ [][reco_signature' = reco_signature =>
          /\ master_pool' = master_pool
          /\ cursor' >= cursor
          /\ cursor' - Len(feed_buffer') >= cursor - Len(feed_buffer)]_vars

\* a buffer holding a run from the middle of the pool: entries in front of
\* it were popped by earlier calls and entries behind the cursor are not
\* loaded yet
C23_Witness ==
  /\ pc = "take"
  /\ ~call.reset
  /\ feed_buffer # <<>>
  /\ Popped > 0
  /\ cursor < Len(master_pool)

\* C24: the list a call with non-empty places returns has between
\* min(RECOMMEND_COUNT, len(master_pool)) and RECOMMEND_COUNT items: exactly
\* RECOMMEND_COUNT when the pool holds at least that many entries, first call
\* or repeated, with or without the fallback, and none only when the pool is
\* empty.
C24_ResultLength ==
  (pc = "return") =>
     /\ Min(RECOMMEND_COUNT, Len(master_pool)) <= Len(results)
     /\ Len(results) <= RECOMMEND_COUNT
     /\ (Len(master_pool) >= RECOMMEND_COUNT) => (Len(results) = RECOMMEND_COUNT)
     /\ (results = <<>>) => (master_pool = <<>>)

\* a call on a pool of fewer than RECOMMEND_COUNT entries returns, through
\* the fallback, more items than the pool holds and fewer than RECOMMEND_COUNT
C24_Witness ==
  /\ pc = "return"
  /\ topup
  /\ Len(master_pool) < Len(results)
  /\ Len(results) < RECOMMEND_COUNT

\* the first min(RECOMMEND_COUNT, len(pool)) entries of the pool, in pool order
FirstEntries(pool) == SubSeq(pool, 1, Min(RECOMMEND_COUNT, Len(pool)))

\* what C25 says of the calls that run the ladder: the pool, once not empty,
\* is used up after finitely many calls; it stays used up; a call that began
\* on a used-up pool changes none of cursor, feed_buffer, seen_place_ids and
\* master_pool and returns FirstEntries through the fallback
DrainedCallsRepeatFirstEntries ==
  /\ (master_pool # <<>>) ~> Drained(cursor, feed_buffer, master_pool)
  /\ [][/\ Drained(cursor, feed_buffer, master_pool)
             => Drained(cursor', feed_buffer', master_pool')
        /\ (pc = "idle" /\ pc' = "refill")
             => (call'.drained <=> Drained(cursor, feed_buffer, master_pool))
        /\ (call.drained \/ call'.drained)
             => UNCHANGED <<cursor, feed_buffer, seen_place_ids, master_pool>>
        /\ (call.drained /\ pc = "return")
             => (topup /\ last_reco' = FirstEntries(master_pool))]_vars

\* a call handed no places, on a used-up pool
EmptyCallOnDrained ==
  /\ pc = "idle"
  /\ Drained(cursor, feed_buffer, master_pool)
  /\ RunNoPlaces

\* C25 (as stated): under repeated calls with one unchanged signature and a
\* non-empty master pool the feed uses up the pool (cursor = len(master_pool),
\* feed_buffer empty) after finitely many calls, and from then on every
\* further call returns the first min(RECOMMEND_COUNT, len(master_pool))
\* entries in pool order via the fallback and leaves cursor, feed_buffer,
\* seen_place_ids and master_pool unchanged.
C25_EveryCallOnDrainedPool ==
  /\ DrainedCallsRepeatFirstEntries
  /\ [][EmptyCallOnDrained => last_reco' = FirstEntries(master_pool)]_vars

\* C25 (amended): the same for every further call that is handed a non-empty
\* list of places; a call handed no places returns [] on a used-up pool as on
\* any other, and it too leaves the four fields unchanged.
C25_CallsWithPlacesOnDrainedPool ==
  /\ DrainedCallsRepeatFirstEntries
  /\ [][EmptyCallOnDrained
          => /\ last_reco' = <<>>
             /\ UNCHANGED <<cursor, feed_buffer, seen_place_ids, master_pool>>]_vars

\* a call that began on a used-up pool larger than max_limit is about to
\* return the first entries, the first of them served before
C25_Witness ==
  /\ pc = "return"
  /\ call.drained
  /\ topup
  /\ Len(master_pool) > max_limit
  /\ results = FirstEntries(master_pool)
  /\ results[1].place_id \in seen_place_ids

\* rerank_after_dislike called with no dislike recorded under the signature
EmptySelectionRerank ==
  /\ DislikedGet(disliked, last_signature) = {}
  /\ \E places \in DislikeCatalogs, kw \in KeywordChoices :
        RerankAfterDislikeUpTo(MaxDislikeRuns, places, kw)

\* C26: after a dislike re-recommendation with a non-empty selection every
\* item of the previous last_reco whose area is not in the selection is still
\* in the new last_reco; with an empty selection rerank_after_dislike changes
\* neither last_reco, the disliked sets nor the Feed State.
C26_OnlyDislikedCardsReplaced ==
  [][/\ (pc = "return" /\ call.selected # {}) =>
           \A i \in 1..Len(last_reco) :
              last_reco[i].area \notin call.selected
                 => last_reco[i] \in Range(last_reco')
     /\ (pc = "idle" /\ EmptySelectionRerank) =>
           UNCHANGED <<last_reco, disliked, feed>>]_vars

C28_WarningIffFallbackItem ==
  [][(pc # "return" /\ pc' = "return") =>
        /\ topup' <=> (pc = "topup" /\ Len(results') > Len(results))
        /\ (pc = "take") => (~topup' /\ Len(results') = RECOMMEND_COUNT)]_vars

(***************************************************************************)
(* _score_place in the arithmetic of the program: score is a Python float  *)
(* (IEEE 754 binary64) and "score += 0.4" rounds every sum to 53           *)
(* significant bits, ties to even.  A float is written here as the number  *)
(* of units of 2^-55 it holds, in five digits of base 4096, lowest first:  *)
(* every float from 0.125 up is a whole number of such units.              *)
(***************************************************************************)
Float0 == <<0, 0, 0, 0, 0>>

\* the float literal 0.4 = 0x1.999999999999ap-2
Float04 == <<820, 819, 819, 819, 51>>

\* the float literal 0.2 = 0x1.999999999999ap-3
Float02 == <<2458, 2457, 2457, 2457, 25>>

\* the exact sum of two digit sequences
RECURSIVE AddDigits(_, _, _)
AddDigits(x, y, carry) ==
  IF x = <<>> THEN <<>>
  ELSE <<(Head(x) + Head(y) + carry) % 4096>>
       \o AddDigits(Tail(x), Tail(y), (Head(x) + Head(y) + carry) \div 4096)

RECURSIVE BitLength(_)
BitLength(n) == IF n = 0 THEN 0 ELSE 1 + BitLength(n \div 2)

RECURSIVE TwoTo(_)
TwoTo(d) == IF d = 0 THEN 1 ELSE 2 * TwoTo(d - 1)

\* round an exact sum below 2^60 units to 53 significant bits, ties to even:
\* the highest digit holds bits 48..59, so the bits dropped lie in the lowest
FloatRound(x) ==
  LET d    == Max(0, BitLength(x[5]) - 5)
      q    == TwoTo(d)
      low  == x[1] % q
      down == <<x[1] - low>> \o Tail(x)
      up   == low * 2 > q \/ (low * 2 = q /\ ((x[1] - low) \div q) % 2 = 1)
  IN  IF up THEN AddDigits(down, <<q, 0, 0, 0, 0>>, 0) ELSE down

\* x + y on floats
FloatAdd(x, y) == FloatRound(AddDigits(x, y, 0))

RECURSIVE FloatLessFrom(_, _, _)
FloatLessFrom(x, y, i) ==
  IF i = 0 THEN FALSE
  ELSE IF x[i] # y[i] THEN x[i] < y[i]
  ELSE FloatLessFrom(x, y, i - 1)

\* x < y on floats
FloatLess(x, y) == FloatLessFrom(x, y, 5)

\* add w to score n times, one float addition each
RECURSIVE AddTimes(_, _, _)
AddTimes(score, w, n) ==
  IF n = 0 THEN score ELSE AddTimes(FloatAdd(score, w), w, n - 1)

\* _score_place as the program computes it: the two loops add 0.4 per user
\* token found and then 0.2 per extra keyword found, in float arithmetic
score_place_float(p, user_tokens, extra_keywords) ==
  LET text == Lower(JoinSp(<<p.name, JoinSp(p.tags), p.description>>))
  IN  AddTimes(AddTimes(Float0, Float04, HitCount(user_tokens, text, FALSE)),
               Float02, HitCount(extra_keywords, text, TRUE))

\* the texts the pool of pool_in is scored with
PoolTokens == tokenize_korean_keywords(pool_in.user_text)

\* the keyword score of a pool item: _score_place over its name, tags and description
KeywordScore(item) == score_place(item, PoolTokens, pool_in.extra_keywords)

\* C29: the list build_master_pool returns is sorted by non-increasing final
\* score, and every entry has a non-empty place_id, an area that is a
\* non-empty token ending in "dong" and holding a Korean character, and a
\* center that is a pair of numbers: the place's own (lat, lng) when both are
\* numbers, else the fixed city centre.
C29_PoolSortedAndWellFormed ==
  \A n \in 1..Len(pool_out) :
     LET pool == pool_out[n]
     IN  /\ \A i \in 1..(Len(pool) - 1) : pool[i].score >= pool[i + 1].score
         /\ \A i \in 1..Len(pool) :
               /\ pool[i].place_id # <<>>
               /\ pool[i].area # <<>>
               /\ pool[i].area[Len(pool[i].area)] = "dong"
               /\ is_korean_text(pool[i].area)
               /\ Len(pool[i].center) = 2
               /\ pool[i].center[1] \in Int /\ pool[i].center[2] \in Int
               /\ IF IsNumber(pool[i].lat) /\ IsNumber(pool[i].lng)
                  THEN pool[i].center = <<pool[i].lat[1], pool[i].lng[1]>>
                  ELSE pool[i].center = CityCenter

\* a pool built from a catalogue with dropped rows: it holds a place with its
\* own coordinates, a place with a latitude only that got the city centre,
\* and entries of different final scores
C29_Witness ==
  \E n \in 1..Len(pool_out) :
     LET pool == pool_out[n]
     IN  /\ Len(pool) < Len(pool_in.places)
         /\ \E i \in 1..Len(pool) : pool[i].center # CityCenter
         /\ \E i \in 1..Len(pool) :
               pool[i].lat # None /\ pool[i].lng = None /\ pool[i].center = CityCenter
         /\ pool[1].score > pool[Len(pool)].score

\* the keyword score of a pool item as the program holds it: the float
\* _score_place returns before the jitter is added
KeywordScoreFloat(item) == score_place_float(item, PoolTokens, pool_in.extra_keywords)

\* the jitter an item received, in units of 0.0001
JitterOf(item) == item.score - KeywordScore(item)

\* every jitter value lies in [0, 0.01)
JitterInRange ==
  \A n \in 1..Len(pool_out) :
     \A i \in 1..Len(pool_out[n]) :
        JitterOf(pool_out[n][i]) >= 0 /\ JitterOf(pool_out[n][i]) < 100

\* C30: the jitter is a tie-breaker only: every jitter value lies in
\* [0, 0.01), and of two candidates with different keyword scores the one
\* with the higher keyword score stands before the other in the master pool.
C30_JitterOnlyBreaksTies ==
  /\ JitterInRange
  /\ \A n \in 1..Len(pool_out) :
        \A i, j \in 1..Len(pool_out[n]) :
           FloatLess(KeywordScoreFloat(pool_out[n][j]), KeywordScoreFloat(pool_out[n][i]))
              => i < j

\* what the program does keep: keyword scores that differ as decimal sums
\* (by 0.2 or more) are never reordered by the jitter
DecimalScoresKeepOrder ==
  \A n \in 1..Len(pool_out) :
     \A i, j \in 1..Len(pool_out[n]) :
        KeywordScore(pool_out[n][i]) > KeywordScore(pool_out[n][j]) => i < j

\* a pool in which the place with the lower float keyword score drew the
\* strictly larger jitter and stands first
LowerScoreFirst ==
  \E n \in 1..Len(pool_out) :
     \E i, j \in 1..Len(pool_out[n]) :
        /\ i < j
        /\ FloatLess(KeywordScoreFloat(pool_out[n][i]), KeywordScoreFloat(pool_out[n][j]))
        /\ KeywordScore(pool_out[n][i]) = KeywordScore(pool_out[n][j])
        /\ JitterOf(pool_out[n][i]) > JitterOf(pool_out[n][j])

====
